---- MODULE Spec2Model ----
(***************************************************************************)
(* A model of subtr-actor's replay processor: the actor-state modeler      *)
(* (src/src/actor_state.rs), the ReplayProcessor driver loop and its       *)
(* per-frame update steps (src/src/processor.rs), and the FrameRateDecorator*)
(* (src/src/collector/decorator.rs).                                       *)
(*                                                                         *)
(* Conventions.                                                            *)
(*  - A HashMap is a function whose DOMAIN is the key set; a Vec is a      *)
(*    sequence.                                                            *)
(*  - An ObjectId is modelled by the object's name: the processor's        *)
(*    name_to_object_id / object_id_to_name tables are a bijection between *)
(*    the two, built once in ReplayProcessor::new.                         *)
(*  - f32 times are integers counted in ticks; boost amounts are integers  *)
(*    counted in 1/93 of a wire unit so that the drain rate 80/0.93 per    *)
(*    second is exact (see BOOST_USED_PER_TICK).                           *)
(*  - A fallible function returns a record with an err field, "Ok" on      *)
(*    success and the SubtrActorErrorVariant's name otherwise.             *)
(***************************************************************************)
EXTENDS Integers, Sequences, FiniteSets, TLC

VARIABLES
    replay,        \* ReplayProcessor.replay: network_frames.frames
    processor,     \* the ReplayProcessor's mutable fields
    handler,       \* the collector handed to process
    pc,            \* position of process: "frame", "collect", "done", "error"
    index,         \* process: index of the enumerate() loop
    target_time,   \* process: local target_time
    current_time,  \* process: local current_time
    result,        \* what process returned ("Running" until it returns)
    last_call,     \* the latest collector invocation: Some([index,
                   \* current_time, inner, answer]), None before the first;
                   \* inner is what the collector wrapped by handler returned
    ncalls,        \* how many times the collector was invoked
    before         \* the processor as it was when the current frame was read

vars == <<replay, processor, handler, pc, index, target_time, current_time,
          result, last_call, ncalls, before>>

-----------------------------------------------------------------------------
(* Object names, src/src/constants.rs *)

BALL_TYPES == <<"Archetypes.Ball.Ball_Default", "Archetypes.Ball.Ball_Basketball",
                "Archetypes.Ball.Ball_Puck", "Archetypes.Ball.CubeBall",
                "Archetypes.Ball.Ball_Breakout">>
BOOST_TYPE == "Archetypes.CarComponents.CarComponent_Boost"
CAR_TYPE == "Archetypes.Car.Car_Default"
DODGE_TYPE == "Archetypes.CarComponents.CarComponent_Dodge"
DOUBLE_JUMP_TYPE == "Archetypes.CarComponents.CarComponent_DoubleJump"
GAME_TYPE == "Archetypes.GameEvent.GameEvent_Soccar"
JUMP_TYPE == "Archetypes.CarComponents.CarComponent_Jump"
PLAYER_REPLICATION_KEY == "Engine.Pawn:PlayerReplicationInfo"
PLAYER_TYPE == "TAGame.Default__PRI_TA"
BOOST_AMOUNT_KEY == "TAGame.CarComponent_Boost_TA:ReplicatedBoostAmount"
BOOST_REPLICATED_KEY == "TAGame.CarComponent_Boost_TA:ReplicatedBoost"
COMPONENT_ACTIVE_KEY == "TAGame.CarComponent_TA:ReplicatedActive"
DEMOLISH_GOAL_EXPLOSION_KEY == "TAGame.Car_TA:ReplicatedDemolishGoalExplosion"
IGNORE_SYNCING_KEY == "TAGame.RBActor_TA:bIgnoreSyncing"
LAST_BOOST_AMOUNT_KEY == "TAGame.CarComponent_Boost_TA:ReplicatedBoostAmount.Last"
PLAYER_NAME_KEY == "Engine.PlayerReplicationInfo:PlayerName"
RIGID_BODY_STATE_KEY == "TAGame.RBActor_TA:ReplicatedRBState"
SECONDS_REMAINING_KEY == "TAGame.GameEvent_Soccar_TA:SecondsRemaining"
TEAM_KEY == "Engine.PlayerReplicationInfo:Team"
UNIQUE_ID_KEY == "Engine.PlayerReplicationInfo:UniqueId"
VEHICLE_KEY == "TAGame.CarComponent_TA:Vehicle"

\* Team archetypes as they occur in replays; get_player_is_team_0 looks at
\* the last character of the name only.
TEAM_ZERO_TYPE == "Archetypes.Teams.Team0"
TEAM_ONE_TYPE == "Archetypes.Teams.Team1"

\* replay.objects: the replay's object table.  ReplayProcessor::new fails on a
\* replay without BOOST_TYPE or CAR_TYPE (update_boost_amounts and
\* update_demolishes return ObjectIdNotFound on the first frame of the
\* discovery pass), so the table of a constructed processor holds both.
Objects ==
    {BALL_TYPES[i] : i \in 1..Len(BALL_TYPES)} \cup
    {BOOST_TYPE, CAR_TYPE, DODGE_TYPE, DOUBLE_JUMP_TYPE, GAME_TYPE, JUMP_TYPE,
     PLAYER_REPLICATION_KEY, PLAYER_TYPE, BOOST_AMOUNT_KEY, BOOST_REPLICATED_KEY,
     COMPONENT_ACTIVE_KEY, DEMOLISH_GOAL_EXPLOSION_KEY, SECONDS_REMAINING_KEY,
     TEAM_KEY, UNIQUE_ID_KEY, VEHICLE_KEY, TEAM_ZERO_TYPE, TEAM_ONE_TYPE,
     IGNORE_SYNCING_KEY, PLAYER_NAME_KEY, RIGID_BODY_STATE_KEY}

-----------------------------------------------------------------------------
(* HashMap and Vec helpers *)

EmptyMap == [k \in {} |-> 0]

\* HashMap::insert
Put(m, k, v) == [x \in DOMAIN m \cup {k} |-> IF x = k THEN v ELSE m[x]]

\* HashMap::remove
Remove(m, k) == [x \in DOMAIN m \ {k} |-> m[x]]

\* Vec::retain(|x| x != a)
Retain(s, a) == SelectSeq(s, LAMBDA x : x # a)

\* slice::contains / Iterator::any
Contains(s, a) == \E i \in 1..Len(s) : s[i] = a

Range(s) == {s[i] : i \in 1..Len(s)}

-----------------------------------------------------------------------------
(* boxcars values.  An Attribute is a record [tag, value]; the tag is the    *)
(* enum variant.                                                            *)

Byte(n) == [tag |-> "Byte", value |-> n]
Float(x) == [tag |-> "Float", value |-> x]
IntAttr(n) == [tag |-> "Int", value |-> n]
ActiveActor(a) == [tag |-> "ActiveActor", value |-> a]
UniqueId(remote_id) == [tag |-> "UniqueId", value |-> remote_id]
ReplicatedBoost(boost_amount) == [tag |-> "ReplicatedBoost", value |-> boost_amount]
DemolishFx(attacker, victim) ==
    [tag |-> "DemolishFx", value |-> <<attacker, victim>>]
Boolean(b) == [tag |-> "Boolean", value |-> b]
String(s) == [tag |-> "String", value |-> s]

\* boxcars::RigidBody, reduced to one coordinate of its location and the
\* sleeping flag (the other coordinates and the rotation are interpolated as
\* the location is, the velocities are copied with the sleeping flag).
RigidBody(location, sleeping) ==
    [tag |-> "RigidBody", value |-> [location |-> location, sleeping |-> sleeping]]

\* Option<T>
None == <<>>
Some(x) == <<x>>

\* boxcars::NewActor with its name_id, and the one without a name
NamedActor(actor_id, object_id, name_id) ==
    [actor_id |-> actor_id, object_id |-> object_id, name_id |-> name_id]
NewActor(actor_id, object_id) == NamedActor(actor_id, object_id, None)
UpdatedAttribute(actor_id, object_id, attribute) ==
    [actor_id |-> actor_id, object_id |-> object_id, attribute |-> attribute]
Frame(time, delta, deleted_actors, new_actors, updated_actors) ==
    [time |-> time, delta |-> delta, deleted_actors |-> deleted_actors,
     new_actors |-> new_actors, updated_actors |-> updated_actors]

-----------------------------------------------------------------------------
(* ActorState and ActorStateModeler, src/src/actor_state.rs *)

\* ActorState::new
ActorState_new(new_actor) ==
    [attributes |-> EmptyMap, derived_attributes |-> EmptyMap,
     object_id |-> new_actor.object_id, name_id |-> new_actor.name_id]

\* ActorStateModeler::new
ActorStateModeler_new == [actor_states |-> EmptyMap, actor_ids_by_type |-> EmptyMap]

\* HashMap::entry(k).or_default() on actor_ids_by_type
EntryOrDefault(by_type, object_id) ==
    IF object_id \in DOMAIN by_type THEN by_type[object_id] ELSE <<>>

\* new_actor that inserts a fresh state also over an actor it already knows
new_actor_inserting(m, na) ==
    IF na.actor_id \in DOMAIN m.actor_states
    THEN IF m.actor_states[na.actor_id].object_id # na.object_id
         THEN [m |-> m, err |-> "ActorIdAlreadyExists"]
         ELSE [m |-> [m EXCEPT !.actor_states =
                          Put(@, na.actor_id, ActorState_new(na))],
               err |-> "Ok"]
    ELSE [m |-> [actor_states |-> Put(m.actor_states, na.actor_id, ActorState_new(na)),
                 actor_ids_by_type |->
                     Put(m.actor_ids_by_type, na.object_id,
                         Append(EntryOrDefault(m.actor_ids_by_type, na.object_id),
                                na.actor_id))],
          err |-> "Ok"]

\* ActorStateModeler::new_actor
new_actor(m, na) ==
    IF na.actor_id \in DOMAIN m.actor_states
    THEN IF m.actor_states[na.actor_id].object_id # na.object_id
         THEN [m |-> m, err |-> "ActorIdAlreadyExists"]
         ELSE [m |-> m, err |-> "Ok"]
    ELSE [m |-> [actor_states |-> Put(m.actor_states, na.actor_id, ActorState_new(na)),
                 actor_ids_by_type |->
                     Put(m.actor_ids_by_type, na.object_id,
                         Append(EntryOrDefault(m.actor_ids_by_type, na.object_id),
                                na.actor_id))],
          err |-> "Ok"]

\* ActorState::update_attribute and ActorStateModeler::update_attribute
update_attribute(m, update, frame_index) ==
    IF update.actor_id \notin DOMAIN m.actor_states
    THEN [m |-> m, err |-> "UpdatedActorIdDoesNotExist"]
    ELSE LET state == m.actor_states[update.actor_id]
             state2 == [state EXCEPT !.attributes =
                            Put(@, update.object_id, <<update.attribute, frame_index>>)]
         IN [m |-> [m EXCEPT !.actor_states = Put(@, update.actor_id, state2)],
             err |-> "Ok"]

\* delete_actor without the retain on actor_ids_by_type
delete_actor_keep_index(m, actor_id) ==
    IF actor_id \notin DOMAIN m.actor_states
    THEN [m |-> m, err |-> "NoStateForActorId"]
    ELSE [m |-> [m EXCEPT !.actor_states = Remove(@, actor_id)], err |-> "Ok"]

\* ActorStateModeler::delete_actor
delete_actor(m, actor_id) ==
    IF actor_id \notin DOMAIN m.actor_states
    THEN [m |-> m, err |-> "NoStateForActorId"]
    ELSE LET state == m.actor_states[actor_id]
         IN [m |-> [actor_states |-> Remove(m.actor_states, actor_id),
                    actor_ids_by_type |->
                        Put(m.actor_ids_by_type, state.object_id,
                            Retain(EntryOrDefault(m.actor_ids_by_type, state.object_id),
                                   actor_id))],
             err |-> "Ok"]

\* The `?` operator and find(|r| r.is_err()): an error result is returned as
\* it is, a success is handed to what follows.  (x is the value of r, worked
\* out once.)
Try(r, Then(_)) == CHOOSE v \in {IF x.err # "Ok" THEN x ELSE Then(x) : x \in {r}} : TRUE

\* iter().map(..).find(|r| r.is_err()): the operations are applied one by one
\* and the first failure stops the iteration.
RECURSIVE DeleteEach(_, _)
DeleteEach(m, ids) ==
    IF ids = <<>> THEN [m |-> m, err |-> "Ok"]
    ELSE Try(delete_actor(m, Head(ids)), LAMBDA r : DeleteEach(r.m, Tail(ids)))

RECURSIVE NewEach(_, _)
NewEach(m, nas) ==
    IF nas = <<>> THEN [m |-> m, err |-> "Ok"]
    ELSE Try(new_actor(m, Head(nas)), LAMBDA r : NewEach(r.m, Tail(nas)))

RECURSIVE UpdateEach(_, _, _)
UpdateEach(m, updates, frame_index) ==
    IF updates = <<>> THEN [m |-> m, err |-> "Ok"]
    ELSE Try(update_attribute(m, Head(updates), frame_index),
             LAMBDA r : UpdateEach(r.m, Tail(updates), frame_index))

\* process_frame as a transaction: a failing frame leaves the modeler as it
\* found it
ActorStateModeler_process_frame_atomic(m, frame, frame_index) ==
    LET r == Try(DeleteEach(m, frame.deleted_actors),
                 LAMBDA d : Try(NewEach(d.m, frame.new_actors),
                                LAMBDA n : UpdateEach(n.m, frame.updated_actors,
                                                      frame_index)))
    IN IF r.err = "Ok" THEN r ELSE [m |-> m, err |-> r.err]

\* process_frame with the new actors handled before the deleted ones
ActorStateModeler_process_frame_new_first(m, frame, frame_index) ==
    Try(NewEach(m, frame.new_actors),
        LAMBDA n : Try(DeleteEach(n.m, frame.deleted_actors),
                       LAMBDA d : UpdateEach(d.m, frame.updated_actors, frame_index)))

\* ActorStateModeler::process_frame
ActorStateModeler_process_frame(m, frame, frame_index) ==
    Try(DeleteEach(m, frame.deleted_actors),
        LAMBDA d : Try(NewEach(d.m, frame.new_actors),
                       LAMBDA n : UpdateEach(n.m, frame.updated_actors, frame_index)))

-----------------------------------------------------------------------------
(* ReplayProcessor, src/src/processor.rs: construction and lookups *)

\* The fields ReplayProcessor::new initialises (the replay and the two name
\* tables are immutable and modelled by replay and Objects).
ReplayProcessor_fresh ==
    [actor_state |-> ActorStateModeler_new,
     ball_actor_id |-> None,
     team_zero |-> <<>>,
     team_one |-> <<>>,
     player_to_actor_id |-> EmptyMap,
     player_to_car |-> EmptyMap,
     player_to_team |-> EmptyMap,
     car_to_boost |-> EmptyMap,
     car_to_jump |-> EmptyMap,
     car_to_double_jump |-> EmptyMap,
     car_to_dodge |-> EmptyMap,
     demolishes |-> <<>>,
     known_demolishes |-> <<>>]

\* ReplayProcessor::get_object_id_for_key: is the name in the object table
get_object_id_for_key(name) ==
    IF name \in Objects THEN [id |-> name, err |-> "Ok"]
    ELSE [id |-> name, err |-> "ObjectIdNotFound"]

\* ReplayProcessor::get_actor_ids_by_object_id
get_actor_ids_by_object_id(p, object_id) ==
    EntryOrDefault(p.actor_state.actor_ids_by_type, object_id)

\* ReplayProcessor::get_attribute_and_updated on an attribute map
get_attribute_and_updated(map, property) ==
    IF get_object_id_for_key(property).err # "Ok"
    THEN [v |-> <<>>, err |-> "ObjectIdNotFound"]
    ELSE IF property \notin DOMAIN map
    THEN [v |-> <<>>, err |-> "PropertyNotFoundInState"]
    ELSE [v |-> map[property], err |-> "Ok"]

\* attribute_match! on the result r of a lookup: the attribute's value,
\* provided it is of the expected variant
attribute_match(r, tag) ==
    IF r.err # "Ok" THEN [value |-> 0, err |-> r.err]
    ELSE IF r.v[1].tag # tag THEN [value |-> 0, err |-> "UnexpectedAttributeType"]
    ELSE [value |-> r.v[1].value, err |-> "Ok"]

\* get_attribute_errors_expected!
get_attribute_errors_expected(map, property, tag) ==
    attribute_match(get_attribute_and_updated(map, property), tag)

\* get_actor_attribute_matching!: get_actor_state, get_attribute, attribute_match!
get_actor_attribute_matching(p, actor_id, property, tag) ==
    IF actor_id \notin DOMAIN p.actor_state.actor_states
    THEN [value |-> 0, err |-> "NoStateForActorId"]
    ELSE get_attribute_errors_expected(
             p.actor_state.actor_states[actor_id].attributes, property, tag)

-----------------------------------------------------------------------------
(* ReplayProcessor::update_mappings *)

\* One expansion of maintain_link! for one update (insert_link is its
\* $map.insert, or the `?` on the attribute lookup).  key_is_attribute tells
\* which of the pair (update.actor_id, attribute value) is the key: the
\* attribute value for player_to_actor_id (the remote id) and for the
\* maintain_actor_link! maps, the updated actor for player_to_team.
insert_link(p, update, map, key_is_attribute, value) ==
    IF value.err # "Ok" THEN [p |-> p, err |-> value.err]
    ELSE IF key_is_attribute
    THEN [p |-> [p EXCEPT ![map] = Put(@, value.value, update.actor_id)], err |-> "Ok"]
    ELSE [p |-> [p EXCEPT ![map] = Put(@, update.actor_id, value.value)], err |-> "Ok"]

maintain_link(p, update, map, actor_type, attr, key_is_attribute, tag) ==
    IF get_object_id_for_key(attr).err # "Ok" THEN [p |-> p, err |-> "ObjectIdNotFound"]
    ELSE IF update.object_id # attr THEN [p |-> p, err |-> "Ok"]
    ELSE IF get_object_id_for_key(actor_type).err # "Ok"
    THEN [p |-> p, err |-> "ObjectIdNotFound"]
    ELSE IF ~Contains(get_actor_ids_by_object_id(p, actor_type), update.actor_id)
    THEN [p |-> p, err |-> "Ok"]
    ELSE insert_link(p, update, map, key_is_attribute,
                     get_actor_attribute_matching(p, update.actor_id, attr, tag))

\* The seven links of update_mappings, in the order the code expands them.
Links ==
    << <<"player_to_actor_id", PLAYER_TYPE, UNIQUE_ID_KEY, TRUE, "UniqueId">>,
       <<"player_to_team", PLAYER_TYPE, TEAM_KEY, FALSE, "ActiveActor">>,
       <<"player_to_car", CAR_TYPE, PLAYER_REPLICATION_KEY, TRUE, "ActiveActor">>,
       <<"car_to_boost", BOOST_TYPE, VEHICLE_KEY, TRUE, "ActiveActor">>,
       <<"car_to_dodge", DODGE_TYPE, VEHICLE_KEY, TRUE, "ActiveActor">>,
       <<"car_to_jump", JUMP_TYPE, VEHICLE_KEY, TRUE, "ActiveActor">>,
       <<"car_to_double_jump", DOUBLE_JUMP_TYPE, VEHICLE_KEY, TRUE, "ActiveActor">> >>

RECURSIVE MaintainLinks(_, _, _)
MaintainLinks(p, update, k) ==
    IF k > Len(Links) THEN [p |-> p, err |-> "Ok"]
    ELSE Try(maintain_link(p, update, Links[k][1], Links[k][2], Links[k][3],
                           Links[k][4], Links[k][5]),
             LAMBDA r : MaintainLinks(r.p, update, k + 1))

RECURSIVE MaintainEach(_, _)
MaintainEach(p, updates) ==
    IF updates = <<>> THEN [p |-> p, err |-> "Ok"]
    ELSE Try(MaintainLinks(p, Head(updates), 1),
             LAMBDA r : MaintainEach(r.p, Tail(updates)))

RECURSIVE RemoveEach(_, _)
RemoveEach(map, ids) ==
    IF ids = <<>> THEN map ELSE RemoveEach(Remove(map, Head(ids)), Tail(ids))

update_mappings(p, frame) ==
    Try(MaintainEach(p, frame.updated_actors),
        LAMBDA r : [p |-> [r.p EXCEPT !.player_to_car =
                                          RemoveEach(@, frame.deleted_actors)],
                    err |-> "Ok"])

-----------------------------------------------------------------------------
(* ReplayProcessor::update_ball_id *)

RECURSIVE FirstBall(_, _)
FirstBall(p, k) ==
    IF k > Len(BALL_TYPES) THEN None
    ELSE IF get_object_id_for_key(BALL_TYPES[k]).err = "Ok"
            /\ get_actor_ids_by_object_id(p, BALL_TYPES[k]) # <<>>
    THEN Some(Head(get_actor_ids_by_object_id(p, BALL_TYPES[k])))
    ELSE FirstBall(p, k + 1)

\* ReplayProcessor::find_ball_actor
find_ball_actor(p) == FirstBall(p, 1)

\* update_ball_id once ball_actor_id is set to ball_actor_id: the Some
\* branch, which the recursive call takes after a ball was found, or Ok(())
\* with None when none was
BallDeletedCheck(ball_actor_id, frame) ==
    IF ball_actor_id # None /\ Contains(frame.deleted_actors, ball_actor_id[1])
    THEN None ELSE ball_actor_id

update_ball_id(p, frame) ==
    [p |-> [p EXCEPT !.ball_actor_id =
                BallDeletedCheck(IF @ # None THEN @ ELSE find_ball_actor(p), frame)],
     err |-> "Ok"]

-----------------------------------------------------------------------------
(* ReplayProcessor::update_boost_amounts *)

\* One wire unit of boost, counted in the model's boost units: 0.93 * 100.
BoostUnit == 93

\* BOOST_USED_PER_SECOND = 80.0 / 0.93 wire units per second, for one tick
\* of 0.1 s, in boost units: (80 / 0.93) * 0.1 * 93.
BOOST_USED_PER_TICK == 800

\* u8 -> f32 (actor_amount_value.into())
ByteToFloat(b) == b * BoostUnit

\* no clamp at 0.0
MaxZero_off(x) == x

\* f32::max(self, 0.0)
MaxZero(x) == IF x < 0 THEN 0 ELSE x

\* get_current_boost_values, lines 724-733: the replicated boost amount,
\* else the legacy byte, else 0
amount_value(replicated, legacy) ==
    IF replicated.err = "Ok" THEN replicated.value
    ELSE IF legacy.err = "Ok" THEN legacy.value
    ELSE 0

\* get_current_boost_values, lines 734-771, given the wire amount and the
\* lookup of the active byte: (amount_value, last_boost_amount, active_value,
\* derived_value, is_active)
boost_values(derived, amount, active) ==
    LET active_value == IF active.err = "Ok" THEN active.value ELSE 0
        derived_value == IF BOOST_AMOUNT_KEY \in DOMAIN derived
                            /\ derived[BOOST_AMOUNT_KEY][1].tag = "Float"
                         THEN derived[BOOST_AMOUNT_KEY][1].value ELSE 0
        last_attribute == IF LAST_BOOST_AMOUNT_KEY \in DOMAIN derived
                          THEN derived[LAST_BOOST_AMOUNT_KEY][1] ELSE Byte(amount)
    IN [amount_value |-> amount,
        last_boost_amount |-> IF last_attribute.tag = "Byte" THEN last_attribute.value
                              ELSE 0,
        active_value |-> active_value,
        derived_value |-> derived_value,
        is_active |-> active_value % 2 = 1]

\* ReplayProcessor::get_current_boost_values
get_current_boost_values(actor_state) ==
    boost_values(
        actor_state.derived_attributes,
        amount_value(
            get_attribute_errors_expected(
                actor_state.attributes, BOOST_REPLICATED_KEY, "ReplicatedBoost"),
            get_attribute_errors_expected(actor_state.attributes, BOOST_AMOUNT_KEY, "Byte")),
        get_attribute_errors_expected(actor_state.attributes, COMPONENT_ACTIVE_KEY, "Byte"))

\* The closure of update_boost_amounts on the values v of one actor:
\* (current_value.max(0.0), actor_amount_value)
boost_update(v, frame) ==
    LET start == IF v.amount_value = v.last_boost_amount
                 THEN v.derived_value
                 ELSE ByteToFloat(v.amount_value)
    IN [current_value |-> MaxZero(IF v.is_active
                                  THEN start - frame.delta * BOOST_USED_PER_TICK
                                  ELSE start),
        new_last_value |-> v.amount_value]

\* The second loop of update_boost_amounts, for one actor
StoreBoost(actor_state, update, frame_index) ==
    [actor_state EXCEPT !.derived_attributes =
        Put(Put(@, LAST_BOOST_AMOUNT_KEY, <<Byte(update.new_last_value), frame_index>>),
            BOOST_AMOUNT_KEY, <<Float(update.current_value), frame_index>>)]

update_boost_amounts(p, frame, frame_index) ==
    IF get_object_id_for_key(BOOST_TYPE).err # "Ok"
    THEN [p |-> p, err |-> "ObjectIdNotFound"]
    ELSE [p |-> [p EXCEPT !.actor_state.actor_states =
                    [a \in DOMAIN @ |->
                        IF Contains(get_actor_ids_by_object_id(p, BOOST_TYPE), a)
                        THEN StoreBoost(@[a],
                                        boost_update(get_current_boost_values(@[a]), frame),
                                        frame_index)
                        ELSE @[a]]],
          err |-> "Ok"]

-----------------------------------------------------------------------------
(* ReplayProcessor::update_demolishes *)

MAX_DEMOLISH_KNOWN_FRAMES_PASSED == 100

Abs(x) == IF x < 0 THEN -x ELSE x

\* the window closed at its far end
demolish_is_known_inclusive(p, demolish_fx, frame_index) ==
    \E i \in 1..Len(p.known_demolishes) :
        /\ p.known_demolishes[i][1] = demolish_fx
        /\ Abs(frame_index - p.known_demolishes[i][2]) <= MAX_DEMOLISH_KNOWN_FRAMES_PASSED

\* ReplayProcessor::demolish_is_known
demolish_is_known(p, demolish_fx, frame_index) ==
    \E i \in 1..Len(p.known_demolishes) :
        /\ p.known_demolishes[i][1] = demolish_fx
        /\ Abs(frame_index - p.known_demolishes[i][2]) < MAX_DEMOLISH_KNOWN_FRAMES_PASSED

\* ReplayProcessor::get_active_demolish_fx: the DemolishFx values of the car
\* actors, in the order of the cars in actor_ids_by_type
\* filter_map(.. .ok()): the value of a success, nothing for an error
ok_seq(r) == IF r.err = "Ok" THEN <<r.value>> ELSE <<>>

RECURSIVE ActiveFxOf(_, _)
ActiveFxOf(p, cars) ==
    IF cars = <<>> THEN <<>>
    ELSE ok_seq(get_attribute_errors_expected(
                    p.actor_state.actor_states[Head(cars)].attributes,
                    DEMOLISH_GOAL_EXPLOSION_KEY, "DemolishFx"))
         \o ActiveFxOf(p, Tail(cars))

get_active_demolish_fx(p) == ActiveFxOf(p, get_actor_ids_by_object_id(p, CAR_TYPE))

\* ReplayProcessor::get_player_id_from_car_id.  Both lookups scan a HashMap
\* and return the first match in iteration order, which is unspecified: the
\* result is the set of Some(PlayerId) that some iteration order yields, with
\* None for the orders that end in NoMatchingPlayerId.
get_player_id_from_car_id(p, car_id) ==
    LET player_actors == {a \in DOMAIN p.player_to_car : p.player_to_car[a] = car_id}
        ids_of(a) == {id \in DOMAIN p.player_to_actor_id : p.player_to_actor_id[id] = a}
    IN IF player_actors = {} THEN {None}
       ELSE UNION {IF ids_of(a) = {} THEN {None} ELSE {Some(id) : id \in ids_of(a)}
                   : a \in player_actors}

\* ReplayProcessor::get_metadata_actor_id and get_seconds_remaining
get_seconds_remaining(p) ==
    IF get_actor_ids_by_object_id(p, GAME_TYPE) = <<>> THEN [value |-> 0, err |-> "NoGameActor"]
    ELSE get_actor_attribute_matching(
             p, Head(get_actor_ids_by_object_id(p, GAME_TYPE)), SECONDS_REMAINING_KEY, "Int")

\* ReplayProcessor::build_demolish_info: Some(DemolishInfo) for every value
\* it can return, and None if it can fail
demolish_infos(attackers, victims, seconds, frame, frame_index) ==
    (IF None \in attackers \/ None \in victims
        \/ (seconds.err # "Ok" /\ attackers # {None} /\ victims # {None})
     THEN {None} ELSE {})
    \cup
    (IF seconds.err # "Ok" THEN {}
     ELSE {Some([time |-> frame.time, seconds_remaining |-> seconds.value,
                 frame |-> frame_index, attacker |-> a[1], victim |-> v[1]])
           : a \in attackers \ {None}, v \in victims \ {None}})

build_demolish_info(p, demolish_fx, frame, frame_index) ==
    demolish_infos(get_player_id_from_car_id(p, demolish_fx[1]),
                   get_player_id_from_car_id(p, demolish_fx[2]),
                   get_seconds_remaining(p), frame, frame_index)

\* The second loop of update_demolishes over new_demolishes: the processors
\* it can end in
RECURSIVE PushDemolishes(_, _, _, _)
PushDemolishes(p, new_demolishes, frame, frame_index) ==
    IF new_demolishes = <<>> THEN {p}
    ELSE UNION {PushDemolishes(
                    [p EXCEPT !.known_demolishes =
                                  Append(@, <<Head(new_demolishes), frame_index>>),
                              !.demolishes =
                                  IF info = None THEN @ ELSE Append(@, info[1])],
                    Tail(new_demolishes), frame, frame_index)
                : info \in build_demolish_info(p, Head(new_demolishes), frame,
                                               frame_index)}

\* update_demolishes that enters a value in known_demolishes only with its
\* log entry
update_demolishes_known_when_logged(p, frame, frame_index) ==
    IF get_object_id_for_key(CAR_TYPE).err # "Ok"
    THEN {[p |-> p, err |-> "ObjectIdNotFound"]}
    ELSE {[p |-> [q EXCEPT !.known_demolishes =
                      IF Len(q.demolishes) > Len(p.demolishes) THEN @
                      ELSE p.known_demolishes],
           err |-> "Ok"]
          : q \in PushDemolishes(
                      p,
                      SelectSeq(get_active_demolish_fx(p),
                                LAMBDA fx : ~demolish_is_known(p, fx, frame_index)),
                      frame, frame_index)}

\* update_demolishes: the set of outcomes [p, err]
update_demolishes(p, frame, frame_index) ==
    IF get_object_id_for_key(CAR_TYPE).err # "Ok"
    THEN {[p |-> p, err |-> "ObjectIdNotFound"]}
    ELSE {[p |-> q, err |-> "Ok"]
          : q \in PushDemolishes(
                      p,
                      SelectSeq(get_active_demolish_fx(p),
                                LAMBDA fx : ~demolish_is_known(p, fx, frame_index)),
                      frame, frame_index)}

-----------------------------------------------------------------------------
(* ReplayProcessor::process, lines 246-251: the update steps of one frame *)

\* `?` before a step with several outcomes
TrySet(r, Then(_)) == UNION {IF x.err # "Ok" THEN {x} ELSE Then(x) : x \in {r}}

\* self.actor_state.process_frame(frame, index), line 247
with_actor_state(p, a) == [p |-> [p EXCEPT !.actor_state = a.m], err |-> a.err]

actor_state_process_frame(p, frame, frame_index) ==
    with_actor_state(p, ActorStateModeler_process_frame(p.actor_state, frame, frame_index))

\* ProcessFrameSteps without the boost integration of line 250
ProcessFrameSteps_no_boost(p, frame, frame_index) ==
    TrySet(actor_state_process_frame(p, frame, frame_index),
        LAMBDA a : TrySet(update_mappings(a.p, frame),
        LAMBDA m : TrySet(update_ball_id(m.p, frame),
        LAMBDA i : update_demolishes(i.p, frame, frame_index))))

\* The five update calls of the loop body, each ended by `?`: the set of
\* outcomes [p, err].  A failing step returns with what it and the steps
\* before it have already changed.
ProcessFrameSteps(p, frame, frame_index) ==
    TrySet(actor_state_process_frame(p, frame, frame_index),
        LAMBDA a : TrySet(update_mappings(a.p, frame),
        LAMBDA m : TrySet(update_ball_id(m.p, frame),
        LAMBDA i : TrySet(update_boost_amounts(i.p, frame, frame_index),
        LAMBDA b : update_demolishes(b.p, frame, frame_index)))))

-----------------------------------------------------------------------------
(* ReplayProcessor::new: the player-order discovery pass *)

\* process_long_enough_to_get_actor_ids stops the pass with
\* FinishProcessingEarly at the first frame index n > 10 * 30.  The model
\* counts replays of a few frames, so the threshold is scaled down with them.
FinishEarlyAfter == 0

\* process under the discovery handler, which returns NextFrame up to the
\* threshold: the frames 0 .. FinishEarlyAfter + 1 are applied in order.  The
\* set of outcomes [p, err] of the frames k .. Len(frames).
RECURSIVE DiscoveryFrames(_, _, _)
DiscoveryFrames(p, frames, k) ==
    IF k > Len(frames) \/ k - 1 > FinishEarlyAfter + 1 THEN {[p |-> p, err |-> "Ok"]}
    ELSE UNION {IF r.err # "Ok" THEN {r} ELSE DiscoveryFrames(r.p, frames, k + 1)
                : r \in ProcessFrameSteps(p, frames[k], k - 1)}

\* ReplayProcessor::get_player_team_key and get_player_is_team_0: Some(bool),
\* or None when the lookup fails.  Of the names in Objects only
\* TEAM_ZERO_TYPE ends in the character '0'.
get_player_is_team_0(p, player_id) ==
    IF player_id \notin DOMAIN p.player_to_actor_id THEN None
    ELSE LET player_actor == p.player_to_actor_id[player_id]
         IN IF player_actor \notin DOMAIN p.player_to_team THEN None
            ELSE LET team_actor == p.player_to_team[player_actor]
                 IN IF team_actor \notin DOMAIN p.actor_state.actor_states THEN None
                    ELSE Some(p.actor_state.actor_states[team_actor].object_id
                                  = TEAM_ZERO_TYPE)

\* format!("{a:?}") of a PlayerId.  PlayerIds are Steam ids n, printed
\* "Steam(n)": two of them compare as their decimal digit strings do, a
\* proper prefix first (')' sorts before every digit).
RECURSIVE Digits(_)
Digits(n) == IF n < 10 THEN <<n>> ELSE Append(Digits(n \div 10), n % 10)

RECURSIVE LexLess(_, _)
LexLess(a, b) ==
    IF a = <<>> THEN b # <<>>
    ELSE IF b = <<>> THEN FALSE
    ELSE IF Head(a) # Head(b) THEN Head(a) < Head(b)
    ELSE LexLess(Tail(a), Tail(b))

DebugLess(x, y) == LexLess(Digits(x), Digits(y))

\* Vec::sort_by on the debug strings, for a Vec without duplicates
RECURSIVE SortByDebug(_)
SortByDebug(S) ==
    IF S = {} THEN <<>>
    ELSE LET least == CHOOSE x \in S : \A y \in S \ {x} : DebugLess(x, y)
         IN <<least>> \o SortByDebug(S \ {least})

\* ReplayProcessor::reset
reset(p) ==
    [p EXCEPT !.player_to_car = EmptyMap,
              !.player_to_team = EmptyMap,
              !.player_to_actor_id = EmptyMap,
              !.car_to_boost = EmptyMap,
              !.car_to_jump = EmptyMap,
              !.car_to_double_jump = EmptyMap,
              !.car_to_dodge = EmptyMap,
              !.actor_state = ActorStateModeler_new,
              !.demolishes = <<>>,
              !.known_demolishes = <<>>]

\* HashMap::keys(): the keys, in one of the orders the map may iterate in
KeyOrders(S) == {order \in [1..Cardinality(S) -> S] : Range(order) = S}

\* sort_by puts x into a sorted Vec after the elements that are not greater
InsertByDebug(sorted, x) ==
    SubSeq(sorted, 1, Cardinality({i \in 1..Len(sorted) : ~DebugLess(x, sorted[i])}))
    \o <<x>>
    \o SubSeq(sorted, Cardinality({i \in 1..Len(sorted) : ~DebugLess(x, sorted[i])}) + 1,
              Len(sorted))

RECURSIVE InsertEachByDebug(_, _)
InsertEachByDebug(sorted, s) ==
    IF s = <<>> THEN sorted
    ELSE InsertEachByDebug(InsertByDebug(sorted, Head(s)), Tail(s))

\* A roster left in the order the map iterated in
sort_by_debug_left_out(s) == s

\* Vec::sort_by(|a, b| format!("{a:?}").cmp(&format!("{b:?}"))), lines
\* 362-365: a stable sort
sort_by_debug(s) == InsertEachByDebug(<<>>, s)

\* The players the discovery pass found with a team: the keys of
\* player_to_team_0, lines 343-351
PlayersWithTeam(p) ==
    {id \in DOMAIN p.player_to_actor_id : get_player_is_team_0(p, id) # None}

\* ReplayProcessor::set_player_order_from_frames, after the pass: keys is
\* player_to_team_0.keys(), which partition splits in that order
set_player_order(p, keys) ==
    reset([p EXCEPT
               !.team_zero =
                   sort_by_debug(SelectSeq(keys, LAMBDA id : get_player_is_team_0(p, id)[1])),
               !.team_one =
                   sort_by_debug(SelectSeq(keys, LAMBDA id : ~get_player_is_team_0(p, id)[1]))])

\* ReplayProcessor::new: the processors construction can return for a
\* replay (none if the discovery pass fails: new returns the error), one for
\* every order the HashMap may iterate in.  set_player_order_from_headers
\* always fails, so the frames decide.
ReplayProcessor_new(frames) ==
    UNION {{set_player_order(r.p, keys) : keys \in KeyOrders(PlayersWithTeam(r.p))}
           : r \in {d \in DiscoveryFrames(ReplayProcessor_fresh, frames, 1) : d.err = "Ok"}}

-----------------------------------------------------------------------------
(* ReplayProcessor: the queries collectors make *)

\* ReplayProcessor::get_ball_actor_id
get_ball_actor_id(p) ==
    IF p.ball_actor_id = None THEN [value |-> 0, err |-> "BallActorNotFound"]
    ELSE [value |-> p.ball_actor_id[1], err |-> "Ok"]

\* The body field of a lookup that failed
NoBody == [location |-> 0, sleeping |-> FALSE]

RigidBodyErr(err) == [value |-> NoBody, updated |-> 0, err |-> err]

\* get_attribute_and_updated! with the RigidBody variant, on the result r of
\* the lookup: the body and the index of the frame that last updated it
rigid_body_and_updated(r) ==
    IF r.err # "Ok" THEN RigidBodyErr(r.err)
    ELSE IF r.v[1].tag # "RigidBody" THEN RigidBodyErr("UnexpectedAttributeType")
    ELSE [value |-> r.v[1].value, updated |-> r.v[2], err |-> "Ok"]

\* ReplayProcessor::get_actor_rigid_body
get_actor_rigid_body(p, actor_id) ==
    IF actor_id \notin DOMAIN p.actor_state.actor_states
    THEN RigidBodyErr("NoStateForActorId")
    ELSE rigid_body_and_updated(
             get_attribute_and_updated(p.actor_state.actor_states[actor_id].attributes,
                                       RIGID_BODY_STATE_KEY))

\* ReplayProcessor::get_ball_rigid_body
get_ball_rigid_body(p) ==
    IF p.ball_actor_id = None THEN RigidBodyErr("BallActorNotFound")
    ELSE get_actor_rigid_body(p, p.ball_actor_id[1])

\* A gate that lets a sleeping ball through
ball_rigid_body_exists_asleep(p) == get_ball_rigid_body(p).err = "Ok"

\* ReplayProcessor::ball_rigid_body_exists (always Ok): the value
ball_rigid_body_exists(p) ==
    /\ get_ball_rigid_body(p).err = "Ok"
    /\ ~get_ball_rigid_body(p).value.sleeping

\* ReplayProcessor::get_ignore_ball_syncing
get_ignore_ball_syncing(p) ==
    IF p.ball_actor_id = None THEN [value |-> 0, err |-> "BallActorNotFound"]
    ELSE get_actor_attribute_matching(p, p.ball_actor_id[1], IGNORE_SYNCING_KEY, "Boolean")

\* The predicate of find_update_in_direction on one frame: the updates of the
\* actor's attribute, of which find takes the first
UpdatesOf(frame, actor_id, object_id) ==
    SelectSeq(frame.updated_actors,
              LAMBDA u : u.actor_id = actor_id /\ u.object_id = object_id)

\* The frame indices util::find_in_direction looks at, all of them carrying
\* an update
FramesInDirection(frames, current_index, actor_id, object_id, direction) ==
    {i \in 0..(Len(frames) - 1) :
        /\ IF direction = "Forward" THEN i > current_index ELSE i < current_index
        /\ UpdatesOf(frames[i + 1], actor_id, object_id) # <<>>}

\* The farthest of the frames found
Farthest(found, direction) ==
    CHOOSE i \in found :
        \A j \in found : IF direction = "Forward" THEN i >= j ELSE i <= j

\* The nearest of the frames found
Nearest(found, direction) ==
    CHOOSE i \in found :
        \A j \in found : IF direction = "Forward" THEN i <= j ELSE i >= j

\* ReplayProcessor::find_update_in_direction (the replay has network frames)
find_update_in_direction(frames, current_index, actor_id, object_id, direction) ==
    IF FramesInDirection(frames, current_index, actor_id, object_id, direction) = {}
    THEN [attribute |-> Byte(0), index |-> 0, err |-> "NoUpdateAfterFrame"]
    ELSE [attribute |->
              Head(UpdatesOf(
                  frames[Nearest(FramesInDirection(frames, current_index, actor_id,
                                                   object_id, direction),
                                 direction) + 1],
                  actor_id, object_id)).attribute,
          index |-> Nearest(FramesInDirection(frames, current_index, actor_id,
                                              object_id, direction), direction),
          err |-> "Ok"]

\* f32 NaN, the value of 0.0 / 0.0 and of every sum and product with it:
\* a number that is no location (locations are not negative)
NaN == -1

\* Vec3::lerp(start, end, (time - start_time) / duration), lines 307-311.
\* Locations are multiples of the durations that occur, so the quotient is
\* exact; a duration of zero divides zero by zero.
lerp(start_location, end_location, elapsed, duration) ==
    IF duration = 0 THEN NaN
    ELSE start_location + ((end_location - start_location) * elapsed) \div duration

\* util::get_interpolated_rigid_body
get_interpolated_rigid_body(start_body, start_time, end_body, end_time, time) ==
    IF ~(start_time <= time /\ time <= end_time)
    THEN [value |-> NoBody, err |-> "InterpolationTimeOrderError"]
    ELSE [value |->
              [location |-> lerp(start_body.location, end_body.location,
                                 time - start_time, end_time - start_time),
               sleeping |-> start_body.sleeping],
          err |-> "Ok"]

\* An interpolation that searches forward whatever the sign of the difference
search_direction_forward(time_and_frame_difference) == "Forward"

\* get_interpolated_actor_rigid_body, lines 953-957
search_direction(time_and_frame_difference) ==
    IF time_and_frame_difference > 0 THEN "Forward" ELSE "Backward"

\* get_interpolated_actor_rigid_body from line 961 on: found is what
\* find_update_in_direction returned
interpolate_with_found(frames, body, frame_time, found, time, close_enough) ==
    IF found.err # "Ok" THEN [value |-> NoBody, err |-> found.err]
    ELSE IF found.attribute.tag # "RigidBody"
    THEN [value |-> NoBody, err |-> "UnexpectedAttributeType"]
    ELSE IF Abs(frames[found.index + 1].time - time) <= close_enough
    THEN [value |-> found.attribute.value, err |-> "Ok"]
    ELSE IF search_direction(time - frame_time) = "Forward"
    THEN get_interpolated_rigid_body(body, frame_time, found.attribute.value,
                                     frames[found.index + 1].time, time)
    ELSE get_interpolated_rigid_body(found.attribute.value,
                                     frames[found.index + 1].time, body, frame_time, time)

\* get_interpolated_actor_rigid_body from line 948 on: rb is what
\* get_actor_rigid_body returned (the frame it names is in the replay)
interpolate_from_reading(frames, actor_id, rb, time, close_enough) ==
    IF rb.err # "Ok" THEN [value |-> NoBody, err |-> rb.err]
    ELSE IF Abs(time - frames[rb.updated + 1].time) <= Abs(close_enough)
    THEN [value |-> rb.value, err |-> "Ok"]
    ELSE IF get_object_id_for_key(RIGID_BODY_STATE_KEY).err # "Ok"
    THEN [value |-> NoBody, err |-> "ObjectIdNotFound"]
    ELSE interpolate_with_found(
             frames, rb.value, frames[rb.updated + 1].time,
             find_update_in_direction(
                 frames, rb.updated, actor_id, RIGID_BODY_STATE_KEY,
                 search_direction(time - frames[rb.updated + 1].time)),
             time, close_enough)

\* ReplayProcessor::get_interpolated_actor_rigid_body
get_interpolated_actor_rigid_body(p, frames, actor_id, time, close_enough) ==
    interpolate_from_reading(frames, actor_id, get_actor_rigid_body(p, actor_id),
                             time, close_enough)

\* ReplayProcessor::get_interpolated_ball_rigid_body
get_interpolated_ball_rigid_body(p, frames, time, close_enough) ==
    IF p.ball_actor_id = None THEN [value |-> NoBody, err |-> "BallActorNotFound"]
    ELSE get_interpolated_actor_rigid_body(p, frames, p.ball_actor_id[1], time,
                                           close_enough)

\* ReplayProcessor::iter_player_ids_in_order
iter_player_ids_in_order(p) == p.team_zero \o p.team_one

\* ReplayProcessor::get_player_actor_id
get_player_actor_id(p, player_id) ==
    IF player_id \in DOMAIN p.player_to_actor_id
    THEN [value |-> p.player_to_actor_id[player_id], err |-> "Ok"]
    ELSE [value |-> 0, err |-> "ActorNotFound"]

\* ReplayProcessor::get_car_actor_id
get_car_actor_id(p, player_id) ==
    IF get_player_actor_id(p, player_id).err # "Ok" THEN get_player_actor_id(p, player_id)
    ELSE IF get_player_actor_id(p, player_id).value \in DOMAIN p.player_to_car
    THEN [value |-> p.player_to_car[get_player_actor_id(p, player_id).value], err |-> "Ok"]
    ELSE [value |-> 0, err |-> "ActorNotFound"]

\* ReplayProcessor::get_boost_actor_id: get_car_connected_actor_id on
\* car_to_boost
get_boost_actor_id(p, player_id) ==
    IF get_car_actor_id(p, player_id).err # "Ok" THEN get_car_actor_id(p, player_id)
    ELSE IF get_car_actor_id(p, player_id).value \in DOMAIN p.car_to_boost
    THEN [value |-> p.car_to_boost[get_car_actor_id(p, player_id).value], err |-> "Ok"]
    ELSE [value |-> 0, err |-> "ActorNotFound"]

\* get_derived_attribute! with the Float variant
get_derived_float(derived_attributes, key) ==
    IF key \notin DOMAIN derived_attributes
    THEN [value |-> 0, err |-> "DerivedKeyValueNotFound"]
    ELSE IF derived_attributes[key][1].tag # "Float"
    THEN [value |-> 0, err |-> "UnexpectedAttributeType"]
    ELSE [value |-> derived_attributes[key][1].value, err |-> "Ok"]

\* ReplayProcessor::get_player_boost_level
get_player_boost_level(p, player_id) ==
    IF get_boost_actor_id(p, player_id).err # "Ok" THEN get_boost_actor_id(p, player_id)
    ELSE IF get_boost_actor_id(p, player_id).value \notin DOMAIN p.actor_state.actor_states
    THEN [value |-> 0, err |-> "NoStateForActorId"]
    ELSE get_derived_float(
             p.actor_state.actor_states[get_boost_actor_id(p, player_id).value]
                 .derived_attributes,
             BOOST_AMOUNT_KEY)

\* ReplayProcessor::get_player_name
get_player_name(p, player_id) ==
    IF get_player_actor_id(p, player_id).err # "Ok" THEN get_player_actor_id(p, player_id)
    ELSE get_actor_attribute_matching(p, get_player_actor_id(p, player_id).value,
                                      PLAYER_NAME_KEY, "String")

\* ReplayProcessor::get_interpolated_player_rigid_body.  The car lookup is
\* unwrapped: a player without a car makes the call panic.
get_interpolated_player_rigid_body(p, frames, player_id, time, close_enough) ==
    IF get_car_actor_id(p, player_id).err # "Ok" THEN [value |-> NoBody, err |-> "Panic"]
    ELSE get_interpolated_actor_rigid_body(p, frames, get_car_actor_id(p, player_id).value,
                                           time, close_enough)

\* The PlayerInfo of the players of one team (the header stats are left out)
PlayerInfos(p, team) ==
    [i \in 1..Len(team) |->
        [name |-> get_player_name(p, team[i]).value, remote_id |-> team[i]]]

\* The players of a team whose name lookup fails, by position
Unnamed(p, team) == {i \in 1..Len(team) : get_player_name(p, team[i]).err # "Ok"}

\* collect::<SubtrActorResult<Vec<_>>>() on a team: the first error
FirstUnnamed(p, team) ==
    get_player_name(p, team[CHOOSE i \in Unnamed(p, team) :
                                \A j \in Unnamed(p, team) : i <= j]).err

\* ReplayProcessor::get_replay_meta
get_replay_meta(p) ==
    IF Unnamed(p, p.team_zero) # {}
    THEN [value |-> [team_zero |-> <<>>, team_one |-> <<>>],
          err |-> FirstUnnamed(p, p.team_zero)]
    ELSE IF Unnamed(p, p.team_one) # {}
    THEN [value |-> [team_zero |-> <<>>, team_one |-> <<>>],
          err |-> FirstUnnamed(p, p.team_one)]
    ELSE [value |-> [team_zero |-> PlayerInfos(p, p.team_zero),
                     team_one |-> PlayerInfos(p, p.team_one)],
          err |-> "Ok"]

-----------------------------------------------------------------------------
(* Collectors, src/src/collector/mod.rs and decorator.rs *)

\* enum TimeAdvance
NextFrame == [tag |-> "NextFrame", t |-> 0]
Time(t) == [tag |-> "Time", t |-> t]

\* SubtrActorResult<TimeAdvance>: Err(e) of a collector
CollectorErr == [tag |-> "Err", t |-> 0]

\* Frame times run over 0 .. MaxTime ticks.
MaxTime == 2

\* Replays hold up to MaxFrames frames.
MaxFrames == 3

\* What a collector can answer: NextFrame, an error, or Time(t) for a time up
\* to one tick past the last frame time.
Answers == {NextFrame, CollectorErr} \cup {Time(t) : t \in 0..(MaxTime + 1)}

\* The answers of the collector at the bottom of handler: one that always
\* returns NextFrame (as NDArrayCollector and the tests' FrameCounter do) or
\* an arbitrary one.
InnerAnswers(h) == IF h.collector = "NextFrame" THEN {NextFrame} ELSE Answers

\* f32::max
Max(a, b) == IF a >= b THEN a ELSE b

\* A decorator that hands a Time of the wrapped collector through
FrameRateDecorator_process_frame_through(target_frame_duration, original_advance, time) ==
    IF original_advance.tag = "NextFrame" THEN Time(time + target_frame_duration)
    ELSE original_advance

\* FrameRateDecorator::process_frame, given what the wrapped collector
\* returned (an error is passed on by `?`)
FrameRateDecorator_process_frame(target_frame_duration, original_advance, time) ==
    LET next_target == time + target_frame_duration
    IN IF original_advance.tag = "Err" THEN original_advance
       ELSE IF original_advance.tag = "NextFrame" THEN Time(next_target)
       ELSE Time(Max(original_advance.t, time + target_frame_duration))

\* handler.process_frame(self, frame, index, current_time): what process
\* receives when the bottom collector answers inner
HandlerAnswer(h, inner, time) ==
    IF h.kind = "FrameRateDecorator"
    THEN FrameRateDecorator_process_frame(h.target_frame_duration, inner, time)
    ELSE inner

-----------------------------------------------------------------------------
(* ReplayProcessor::process *)

\* The invocation counter stops counting at MaxCalls: more than the
\* invocations of a collector that asks for NextFrame every time (one per
\* frame) or that moves on by at least one tick per invocation (one per tick).
MaxCalls == Max(MaxTime + 1, MaxFrames) + 1

Count(n) == IF n < MaxCalls THEN n + 1 ELSE n

\* A `?` that lets an Err through
is_err_never(answer) == FALSE

\* Line 263, the `?` on the handler's result: is it an Err
is_err(answer) == answer.tag = "Err"

\* current_time taken from the frame whatever target_time holds
FirstTime_frame(target, frame) == frame.time

\* current_time taken from target_time whatever variant it is
FirstTime_target(target, frame) == target.t

\* Lines 255-258: the time the collector is first offered on a frame
FirstTime(target, frame) == IF target.tag = "Time" THEN target.t ELSE frame.time

\* `while current_time == frame.time`
LoopTest_equal(time, frame) == IF time = frame.time THEN "collect" ELSE "frame"

\* `loop`, left only by the `break` of line 271
LoopTest_unconditional(time, frame) == IF time >= 0 THEN "collect" ELSE "frame"

\* Line 260, `while current_time <= frame.time`, evaluated for time: the
\* loop body runs ("collect") or the for loop moves to the next frame.
LoopTest(time, frame) == IF time <= frame.time THEN "collect" ELSE "frame"

\* Lines 246-260: read frame index, apply its update steps, work out
\* current_time and test the while condition
ProcessFrame ==
    /\ pc = "frame"
    /\ index < Len(replay)
    /\ LET frame == replay[index + 1]
       IN \E r \in ProcessFrameSteps(processor, frame, index) :
            /\ before' = processor
            /\ processor' = r.p
            /\ IF r.err # "Ok"
               THEN /\ pc' = "error"
                    /\ result' = r.err
                    /\ UNCHANGED <<index, current_time>>
               ELSE /\ current_time' = FirstTime(target_time, frame)
                    /\ pc' = LoopTest(current_time', frame)
                    /\ index' = IF pc' = "frame" THEN index + 1 ELSE index
                    /\ UNCHANGED result
    /\ UNCHANGED <<replay, handler, target_time, last_call, ncalls>>

\* Lines 263-274: one run of the while body, a call of the handler
CallHandler ==
    /\ pc = "collect"
    /\ LET frame == replay[index + 1]
       IN \E inner \in InnerAnswers(handler) :
            \E answer \in {HandlerAnswer(handler, inner, current_time)} :
               /\ last_call' = Some([index |-> index, current_time |-> current_time,
                                      inner |-> inner, answer |-> answer])
               /\ ncalls' = Count(ncalls)
               /\ IF is_err(answer)
                  THEN /\ pc' = "error"
                       /\ result' = "CollectorError"
                       /\ UNCHANGED <<index, target_time, current_time>>
                  ELSE /\ target_time' = answer
                       /\ UNCHANGED result
                       /\ IF answer.tag = "Time"
                          THEN /\ current_time' = answer.t
                               /\ pc' = LoopTest(answer.t, frame)
                               /\ index' = IF pc' = "frame" THEN index + 1 ELSE index
                          ELSE /\ pc' = "frame"
                               /\ index' = index + 1
                               /\ UNCHANGED current_time
    /\ UNCHANGED <<replay, processor, handler, before>>

\* Line 276: the for loop is exhausted
Return ==
    /\ pc = "frame"
    /\ index = Len(replay)
    /\ pc' = "done"
    /\ result' = "Ok"
    /\ UNCHANGED <<replay, processor, handler, index, target_time, current_time,
                   last_call, ncalls, before>>

-----------------------------------------------------------------------------
(* NDArrayCollector, src/src/collector/ndarray.rs *)

\* The names registered in NAME_TO_GLOBAL_FEATURE_ADDER
NAME_TO_GLOBAL_FEATURE_ADDER ==
    {"BallRigidBody", "BallRigidBodyNoVelocities", "BallRigidBodyQuaternions",
     "VelocityAddedBallRigidBodyNoVelocities", "InterpolatedBallRigidBodyNoVelocities",
     "SecondsRemaining", "CurrentTime", "FrameTime"}

\* The names registered in NAME_TO_PLAYER_FEATURE_ADDER
NAME_TO_PLAYER_FEATURE_ADDER ==
    {"PlayerRigidBody", "PlayerRigidBodyNoVelocities", "PlayerRigidBodyQuaternions",
     "VelocityAddedPlayerRigidBodyNoVelocities",
     "InterpolatedPlayerRigidBodyNoVelocities", "PlayerBoost", "PlayerJump",
     "PlayerAnyJump", "PlayerDemolishedBy"}

\* NDArrayCollector::new.  The adders are kept by name.
NDArrayCollector_new(feature_adders, player_feature_adders) ==
    [feature_adders |-> feature_adders,
     player_feature_adders |-> player_feature_adders,
     data |-> <<>>,
     replay_meta |-> None,
     frames_added |-> 0]

\* NDArrayCollector::from_strings
from_strings(fa_names, pfa_names) ==
    IF \/ \E i \in 1..Len(fa_names) : fa_names[i] \notin NAME_TO_GLOBAL_FEATURE_ADDER
       \/ \E i \in 1..Len(pfa_names) : pfa_names[i] \notin NAME_TO_PLAYER_FEATURE_ADDER
    THEN [value |-> NDArrayCollector_new(<<>>, <<>>), err |-> "UnknownFeatureAdderName"]
    ELSE [value |-> NDArrayCollector_new(fa_names, pfa_names), err |-> "Ok"]

\* FeatureAdder::get_column_headers of the scalar global adders
global_column_headers(name) ==
    CASE name = "SecondsRemaining" -> <<"seconds remaining">>
      [] name = "CurrentTime" -> <<"current time">>
      [] name = "FrameTime" -> <<"frame time">>

\* PlayerFeatureAdder::get_column_headers of PlayerBoost, PlayerDemolishedBy
player_column_headers(name) ==
    CASE name = "PlayerBoost" -> <<"boost level">>
      [] name = "PlayerDemolishedBy" -> <<"player demolished by">>

\* Iterator::flatten over a Vec of Vecs
RECURSIVE Flatten(_)
Flatten(s) == IF s = <<>> THEN <<>> ELSE Head(s) \o Flatten(Tail(s))

\* NDArrayCollector::get_column_headers
get_column_headers(c) ==
    [global_headers |->
         Flatten([i \in 1..Len(c.feature_adders) |->
                     global_column_headers(c.feature_adders[i])]),
     player_headers |->
         Flatten([i \in 1..Len(c.player_feature_adders) |->
                     player_column_headers(c.player_feature_adders[i])])]

\* format!("{player_prefix}{header}") with the prefix "Player {index} - ":
\* the string, kept as its pieces
PlayerHeader(player_index, header) == <<"Player ", player_index, " - ", header>>

\* ReplayMeta::player_order
player_order(replay_meta) == replay_meta.team_zero \o replay_meta.team_one

\* ReplayMetaWithHeaders::headers_vec
headers_vec(replay_meta, column_headers) ==
    column_headers.global_headers \o
    Flatten([i \in 1..Len(player_order(replay_meta)) |->
                [k \in 1..Len(column_headers.player_headers) |->
                    PlayerHeader(i - 1, column_headers.player_headers[k])]])

\* DEMOLISH_APPEARANCE_FRAME_COUNT
DEMOLISH_APPEARANCE_FRAME_COUNT == 30

\* Iterator::position, from 0, or otherwise when nothing matches
Position(s, x, otherwise) ==
    IF \E i \in 1..Len(s) : s[i] = x
    THEN (CHOOSE i \in 1..Len(s) : s[i] = x /\ \A j \in 1..(i - 1) : s[j] # x) - 1
    ELSE otherwise

\* The closure of PlayerDemolishedBy
demolished_by(player_id, p, frame_number) ==
    IF SelectSeq(p.demolishes,
                 LAMBDA d : /\ d.victim = player_id
                            /\ frame_number - d.frame < DEMOLISH_APPEARANCE_FRAME_COUNT)
       = <<>>
    THEN -1
    ELSE Position(iter_player_ids_in_order(p),
                  Head(SelectSeq(p.demolishes,
                                 LAMBDA d : /\ d.victim = player_id
                                            /\ frame_number - d.frame
                                                   < DEMOLISH_APPEARANCE_FRAME_COUNT)).attacker,
                  Len(iter_player_ids_in_order(p)))

\* FeatureAdder::add_features of a scalar global adder: vector.extend of its
\* get_features, or its error with vector as it was
add_features(name, p, frame, frame_number, time, vector) ==
    CASE name = "SecondsRemaining" ->
             IF get_seconds_remaining(p).err # "Ok"
             THEN [data |-> vector, err |-> get_seconds_remaining(p).err]
             ELSE [data |-> Append(vector, get_seconds_remaining(p).value), err |-> "Ok"]
      [] name = "CurrentTime" -> [data |-> Append(vector, time), err |-> "Ok"]
      [] name = "FrameTime" -> [data |-> Append(vector, frame.time), err |-> "Ok"]

\* PlayerFeatureAdder::add_features of PlayerBoost and PlayerDemolishedBy
player_add_features(name, player_id, p, frame, frame_number, time, vector) ==
    CASE name = "PlayerBoost" ->
             [data |-> Append(vector,
                              IF get_player_boost_level(p, player_id).err = "Ok"
                              THEN get_player_boost_level(p, player_id).value ELSE 0),
              err |-> "Ok"]
      [] name = "PlayerDemolishedBy" ->
             [data |-> Append(vector, demolished_by(player_id, p, frame_number)),
              err |-> "Ok"]

\* Lines 273-281: the loop over feature_adders
RECURSIVE add_global_features(_, _, _, _, _, _)
add_global_features(adders, p, frame, frame_number, time, data) ==
    IF adders = <<>> THEN [data |-> data, err |-> "Ok"]
    ELSE Try(add_features(Head(adders), p, frame, frame_number, time, data),
             LAMBDA r : add_global_features(Tail(adders), p, frame, frame_number,
                                            time, r.data))

\* The pairs of two nested loops with the adders outside and the players
\* inside
player_adder_pairs_adders_outside(players, adders) ==
    [k \in 1..(Len(players) * Len(adders)) |->
        <<players[((k - 1) % Len(players)) + 1], adders[((k - 1) \div Len(players)) + 1]>>]

\* Lines 283-294: the (player, adder) pairs in the order the nested loops
\* visit them, the players outside
player_adder_pairs(players, adders) ==
    [k \in 1..(Len(players) * Len(adders)) |->
        <<players[((k - 1) \div Len(adders)) + 1], adders[((k - 1) % Len(adders)) + 1]>>]

\* Lines 283-294: the bodies of the nested loops
RECURSIVE add_player_features(_, _, _, _, _, _)
add_player_features(pairs, p, frame, frame_number, time, data) ==
    IF pairs = <<>> THEN [data |-> data, err |-> "Ok"]
    ELSE Try(player_add_features(Head(pairs)[2], Head(pairs)[1], p, frame, frame_number,
                                 time, data),
             LAMBDA r : add_player_features(Tail(pairs), p, frame, frame_number,
                                            time, r.data))

\* Lines 273-294: both loops, each add_features ended by `?`.  [data, err]:
\* what the loops have pushed stays in data when one of them fails.
add_row(c, p, frame, frame_number, time) ==
    Try(add_global_features(c.feature_adders, p, frame, frame_number, time,
                            c.data),
        LAMBDA g : add_player_features(
                       player_adder_pairs(iter_player_ids_in_order(p),
                                          c.player_feature_adders),
                       p, frame, frame_number, time, g.data))

\* NDArrayCollector::maybe_set_replay_meta
maybe_set_replay_meta(c, p) ==
    IF c.replay_meta # None THEN [c |-> c, err |-> "Ok"]
    ELSE IF get_replay_meta(p).err # "Ok" THEN [c |-> c, err |-> get_replay_meta(p).err]
    ELSE [c |-> [c EXCEPT !.replay_meta = Some(get_replay_meta(p).value)], err |-> "Ok"]

\* Lines 296-298 after the loops returned r
row_added(c, r) ==
    [c |-> [c EXCEPT !.data = r.data,
                     !.frames_added = IF r.err = "Ok" THEN @ + 1 ELSE @],
     err |-> r.err]

\* NDArrayCollector::process_frame: the collector afterwards, with err "Ok"
\* where it returns Ok(NextFrame)
NDArrayCollector_process_frame(c, p, frame, frame_number, time) ==
    Try(maybe_set_replay_meta(c, p),
        LAMBDA m : IF ~ball_rigid_body_exists(p) THEN m
                   ELSE row_added(m.c, add_row(m.c, p, frame, frame_number, time)))

\* NDArrayCollector::try_get_frame_feature_count
try_get_frame_feature_count(c) ==
    IF c.replay_meta = None THEN [value |-> 0, err |-> "CouldNotBuildReplayMeta"]
    ELSE [value |-> Len(get_column_headers(c).global_headers)
                    + Len(get_column_headers(c).player_headers)
                      * Len(player_order(c.replay_meta[1])),
          err |-> "Ok"]

\* Array2::from_shape_vec((rows, columns), data): the rows
from_shape_vec(rows, columns, data) ==
    [k \in 1..rows |-> SubSeq(data, (k - 1) * columns + 1, k * columns)]

\* NDArrayCollector::get_meta_and_ndarray; err is "Panic" where the
\* assertion of line 181 fails
get_meta_and_ndarray(c) ==
    IF try_get_frame_feature_count(c).err # "Ok"
    THEN [headers |-> <<>>, array |-> <<>>, err |-> try_get_frame_feature_count(c).err]
    ELSE IF Len(c.data) # try_get_frame_feature_count(c).value * c.frames_added
    THEN [headers |-> <<>>, array |-> <<>>, err |-> "Panic"]
    ELSE [headers |-> headers_vec(c.replay_meta[1], get_column_headers(c)),
          array |-> from_shape_vec(c.frames_added, try_get_frame_feature_count(c).value,
                                   c.data),
          err |-> "Ok"]

-----------------------------------------------------------------------------
(* ReplayDataCollector, src/src/collector/replay_data.rs *)

\* BallFrame::Empty and PlayerFrame::Empty
Empty == [tag |-> "Empty"]

\* BallFrame::new_from_rigid_body
BallFrame_new_from_rigid_body(rigid_body) ==
    IF rigid_body.sleeping THEN Empty ELSE [tag |-> "Data", rigid_body |-> rigid_body]

\* BallFrame::new_from_processor
BallFrame_new_from_processor(p, frames, time) ==
    IF get_ignore_ball_syncing(p).err = "Ok" /\ get_ignore_ball_syncing(p).value
    THEN Empty
    ELSE IF get_interpolated_ball_rigid_body(p, frames, time, 0).err = "Ok"
    THEN BallFrame_new_from_rigid_body(
             get_interpolated_ball_rigid_body(p, frames, time, 0).value)
    ELSE Empty

\* PlayerFrame::new_from_processor after the rigid-body lookup returned rb.
\* Of the fields of PlayerFrame::Data the body and the boost amount are kept.
PlayerFrame_from_rigid_body(p, player_id, rb) ==
    IF rb.err # "Ok" THEN [value |-> Empty, err |-> rb.err]
    ELSE IF rb.value.sleeping THEN [value |-> Empty, err |-> "Ok"]
    ELSE IF get_player_boost_level(p, player_id).err # "Ok"
    THEN [value |-> Empty, err |-> get_player_boost_level(p, player_id).err]
    ELSE [value |-> [tag |-> "Data", rigid_body |-> rb.value,
                     boost_amount |-> get_player_boost_level(p, player_id).value],
          err |-> "Ok"]

\* PlayerFrame::new_from_processor
PlayerFrame_new_from_processor(p, frames, player_id, time) ==
    PlayerFrame_from_rigid_body(
        p, player_id, get_interpolated_player_rigid_body(p, frames, player_id, time, 0))

\* ReplayDataCollector::get_player_frames: (PlayerId, PlayerFrame) for the
\* players in order, an Err turned into Empty; err is "Panic" if a call
\* panics
get_player_frames(p, frames, time) ==
    [value |->
         [i \in 1..Len(iter_player_ids_in_order(p)) |->
             <<iter_player_ids_in_order(p)[i],
               IF PlayerFrame_new_from_processor(
                      p, frames, iter_player_ids_in_order(p)[i], time).err = "Ok"
               THEN PlayerFrame_new_from_processor(
                        p, frames, iter_player_ids_in_order(p)[i], time).value
               ELSE Empty>>],
     err |-> IF \E i \in 1..Len(iter_player_ids_in_order(p)) :
                    PlayerFrame_new_from_processor(
                        p, frames, iter_player_ids_in_order(p)[i], time).err = "Panic"
             THEN "Panic" ELSE "Ok"]

\* MetadataFrame::new_from_processor
MetadataFrame_new_from_processor(p, time) ==
    IF get_seconds_remaining(p).err # "Ok"
    THEN [value |-> [time |-> time, seconds_remaining |-> 0],
          err |-> get_seconds_remaining(p).err]
    ELSE [value |-> [time |-> time,
                     seconds_remaining |-> get_seconds_remaining(p).value],
          err |-> "Ok"]

\* PlayerData::add_frame on the frames of a player (frame_index is never
\* below their number)
PlayerData_add_frame(frames, frame_index, frame) ==
    Append(frames \o [i \in 1..(frame_index - Len(frames)) |-> Empty], frame)

\* BallData::add_frame
BallData_add_frame(frames, frame_index, frame) ==
    Append(frames \o [i \in 1..(frame_index - Len(frames)) |-> Empty], frame)

\* FrameData::new
FrameData_new == [ball_data |-> <<>>, players |-> <<>>, metadata_frames |-> <<>>]

\* players.get_entry(player_id).or_insert_with(PlayerData::new)
\*     .add_frame(frame_index, frame)
add_player_frame(players, player_id, frame_index, frame) ==
    IF \E i \in 1..Len(players) : players[i][1] = player_id
    THEN [i \in 1..Len(players) |->
             IF i = Position([k \in 1..Len(players) |-> players[k][1]], player_id, 0) + 1
             THEN <<players[i][1], PlayerData_add_frame(players[i][2], frame_index, frame)>>
             ELSE players[i]]
    ELSE Append(players, <<player_id, PlayerData_add_frame(<<>>, frame_index, frame)>>)

\* The loop of FrameData::add_frame over player_frames
RECURSIVE add_player_frames(_, _, _)
add_player_frames(players, player_frames, frame_index) ==
    IF player_frames = <<>> THEN players
    ELSE add_player_frames(
             add_player_frame(players, Head(player_frames)[1], frame_index,
                              Head(player_frames)[2]),
             Tail(player_frames), frame_index)

\* The frame index read after the metadata frame is pushed
frame_index_after_push(frame_data) == Len(frame_data.metadata_frames) + 1

\* FrameData::add_frame, line 597: let frame_index = self.metadata_frames.len()
frame_index_before_push(frame_data) == Len(frame_data.metadata_frames)

\* FrameData::add_frame
FrameData_add_frame(frame_data, frame_metadata, ball_frame, player_frames) ==
    [metadata_frames |-> Append(frame_data.metadata_frames, frame_metadata),
     ball_data |-> BallData_add_frame(frame_data.ball_data,
                                      frame_index_before_push(frame_data), ball_frame),
     players |-> add_player_frames(frame_data.players, player_frames,
                                   frame_index_before_push(frame_data))]

\* ReplayDataCollector::new
ReplayDataCollector_new == [frame_data |-> FrameData_new]

\* ReplayDataCollector::process_frame: the collector afterwards, with err
\* "Ok" where it returns Ok(NextFrame) and "Panic" where it panics
ReplayDataCollector_process_frame(c, p, frames, time) ==
    IF MetadataFrame_new_from_processor(p, time).err # "Ok"
    THEN [c |-> c, err |-> MetadataFrame_new_from_processor(p, time).err]
    ELSE IF get_player_frames(p, frames, time).err # "Ok"
    THEN [c |-> c, err |-> get_player_frames(p, frames, time).err]
    ELSE [c |-> [frame_data |->
                     FrameData_add_frame(c.frame_data,
                                         MetadataFrame_new_from_processor(p, time).value,
                                         BallFrame_new_from_processor(p, frames, time),
                                         get_player_frames(p, frames, time).value)],
          err |-> "Ok"]

-----------------------------------------------------------------------------
(* ReplayProcessor::process with a collector that keeps state *)

\* A call that panicked: process does not return
Panicked == [tag |-> "Panic", t |-> 0]

\* handler.process_frame of the collector at the bottom of h
Collector_process_frame(h, p, frames, frame_index, time) ==
    IF h.collector = "NDArray"
    THEN NDArrayCollector_process_frame(h.state, p, frames[frame_index + 1],
                                        frame_index, time)
    ELSE ReplayDataCollector_process_frame(h.state, p, frames, time)

\* What the collector returned: Ok(NextFrame), an Err, or a panic
InnerAnswer(r) ==
    IF r.err = "Ok" THEN NextFrame ELSE IF r.err = "Panic" THEN Panicked ELSE CollectorErr

\* Lines 263-274 with such a collector: one run of the while body
CallCollector ==
    /\ pc = "collect"
    /\ \E r \in {Collector_process_frame(handler, processor, replay, index, current_time)} :
        \E answer \in {IF r.err = "Panic" THEN Panicked
                       ELSE HandlerAnswer(handler, InnerAnswer(r), current_time)} :
           /\ handler' = [handler EXCEPT !.state = r.c]
           /\ last_call' = Some([index |-> index, current_time |-> current_time,
                                  inner |-> InnerAnswer(r), answer |-> answer])
           /\ ncalls' = Count(ncalls)
           /\ IF answer.tag = "Panic"
              THEN /\ pc' = "panic"
                   /\ result' = "Panicked"
                   /\ UNCHANGED <<index, target_time, current_time>>
              ELSE IF is_err(answer)
              THEN /\ pc' = "error"
                   /\ result' = "CollectorError"
                   /\ UNCHANGED <<index, target_time, current_time>>
              ELSE /\ target_time' = answer
                   /\ UNCHANGED result
                   /\ IF answer.tag = "Time"
                      THEN /\ current_time' = answer.t
                           /\ pc' = LoopTest(answer.t, replay[index + 1])
                           /\ index' = IF pc' = "frame" THEN index + 1 ELSE index
                      ELSE /\ pc' = "frame"
                           /\ index' = index + 1
                           /\ UNCHANGED current_time
    /\ UNCHANGED <<replay, processor, before>>

NextCollect == ProcessFrame \/ CallCollector \/ Return

-----------------------------------------------------------------------------
(* Replays: the inputs of the driver specifications *)

\* What a frame carries besides its time and delta
Content(deleted_actors, new_actors, updated_actors) ==
    [deleted_actors |-> deleted_actors, new_actors |-> new_actors,
     updated_actors |-> updated_actors]

Quiet == Content(<<>>, <<>>, <<>>)

\* Player 10 joins (actor 2) and is put on team 0 (actor 3).
JoinTeam ==
    Content(<<>>,
            <<NewActor(2, PLAYER_TYPE), NewActor(3, TEAM_ZERO_TYPE)>>,
            <<UpdatedAttribute(2, UNIQUE_ID_KEY, UniqueId(10)),
              UpdatedAttribute(2, TEAM_KEY, ActiveActor(3))>>)

\* Player 9 joins (actor 1); no team is reported for it.
Join ==
    Content(<<>>, <<NewActor(1, PLAYER_TYPE)>>,
            <<UpdatedAttribute(1, UNIQUE_ID_KEY, UniqueId(9))>>)

\* A boost component (actor 4) with 20 wire units, active
BoostOn ==
    Content(<<>>, <<NewActor(4, BOOST_TYPE)>>,
            <<UpdatedAttribute(4, BOOST_AMOUNT_KEY, Byte(20)),
              UpdatedAttribute(4, COMPONENT_ACTIVE_KEY, Byte(1))>>)

\* Players 9 and 10 with their cars 5 and 6, the game actor 8, and car 5
\* demolishing car 6
Demolition ==
    Content(<<>>,
            <<NewActor(1, PLAYER_TYPE), NewActor(2, PLAYER_TYPE), NewActor(5, CAR_TYPE),
              NewActor(6, CAR_TYPE), NewActor(8, GAME_TYPE)>>,
            <<UpdatedAttribute(1, UNIQUE_ID_KEY, UniqueId(9)),
              UpdatedAttribute(2, UNIQUE_ID_KEY, UniqueId(10)),
              UpdatedAttribute(5, PLAYER_REPLICATION_KEY, ActiveActor(1)),
              UpdatedAttribute(6, PLAYER_REPLICATION_KEY, ActiveActor(2)),
              UpdatedAttribute(8, SECONDS_REMAINING_KEY, IntAttr(30)),
              UpdatedAttribute(5, DEMOLISH_GOAL_EXPLOSION_KEY, DemolishFx(5, 6))>>)

\* A frame that deletes an actor that never existed: process_frame fails.
Broken == Content(<<7>>, <<>>, <<>>)

\* The first frame index the discovery pass does not reach
AfterDiscovery == FinishEarlyAfter + 2

\* Scripts: the content of the frame at index i (from 0)
ScriptQuiet(i) == Quiet

ScriptLateJoin(i) ==
    IF i = 0 THEN JoinTeam
    ELSE IF i = AfterDiscovery THEN Join
    ELSE BoostOn

ScriptBroken(i) ==
    IF i = 0 THEN Demolition
    ELSE IF i = AfterDiscovery THEN Broken
    ELSE Quiet

ScriptContent(script, i) ==
    IF script = "Quiet" THEN ScriptQuiet(i)
    ELSE IF script = "LateJoin" THEN ScriptLateJoin(i)
    ELSE ScriptBroken(i)

Scripts == {"Quiet", "LateJoin", "Broken"}

\* A replay: the frames of a script with arbitrary times and a delta of one
\* tick
ReplayOf(script, times) ==
    [i \in 1..Len(times) |->
        LET c == ScriptContent(script, i - 1)
        IN Frame(times[i], 1, c.deleted_actors, c.new_actors, c.updated_actors)]

Replays ==
    {ReplayOf(script, times) :
        script \in Scripts, times \in UNION {[1..n -> 0..MaxTime] : n \in 0..MaxFrames}}

-----------------------------------------------------------------------------
(* Specifications of the driver *)

\* Collectors handed to process directly
Closures ==
    {[kind |-> "Closure", target_frame_duration |-> 0, collector |-> c]
     : c \in {"NextFrame", "Any"}}

\* The state when process is entered on a processor ReplayProcessor::new
\* returned for the replay
InitWith(handlers) ==
    /\ replay \in Replays
    /\ processor \in ReplayProcessor_new(replay)
    /\ handler \in handlers
    /\ pc = "frame"
    /\ index = 0
    /\ target_time = NextFrame
    /\ current_time = 0
    /\ result = "Running"
    /\ last_call = None
    /\ ncalls = 0
    /\ before = processor

Init == InitWith(Closures)

Next == ProcessFrame \/ CallHandler \/ Return

Spec == Init /\ [][Next]_vars

\* Collectors wrapped in a FrameRateDecorator.  new_from_fps computes the
\* duration as 1.0 / fps: a whole number of ticks here, 0 for fps = infinity.
Decorators ==
    {[kind |-> "FrameRateDecorator", target_frame_duration |-> d, collector |-> c]
     : d \in 0..MaxTime, c \in {"NextFrame", "Any"}}

InitDecorator == InitWith(Decorators)

SpecDecorator == InitDecorator /\ [][Next]_vars

\* process is a sequential loop: as long as it has not returned it takes its
\* next step.
SpecDecoratorFair == InitDecorator /\ [][Next]_vars /\ WF_vars(Next)

\* process driving a closure or a FrameRateDecorator around a collector that
\* returns NextFrame, on the replays whose frames all apply and on those with
\* a frame that fails, as the sequential loop it is
InitAnyHandler ==
    /\ InitWith(Closures \cup {d \in Decorators : d.collector = "NextFrame"})
    /\ \E script \in {"Quiet", "Broken"} : \E n \in 0..MaxFrames :
          \E times \in [1..n -> 0..MaxTime] : replay = ReplayOf(script, times)

SpecFair == InitAnyHandler /\ [][Next]_vars /\ WF_vars(Next)

\* process with a FrameRateDecorator of duration d around a collector that
\* always returns NextFrame: the number of invocations from frame k (from 1)
\* on, entered with target_time = target
RECURSIVE InvocationsFrom(_, _, _, _)
RECURSIVE InvocationsOn(_, _, _, _, _)
InvocationsFrom(frames, d, k, target) ==
    IF k > Len(frames) THEN 0
    ELSE InvocationsOn(frames, d, k, target, FirstTime(target, frames[k]))

\* the same from the test of the while loop on frame k at current_time = time
InvocationsOn(frames, d, k, target, time) ==
    IF LoopTest(time, frames[k]) = "collect"
    THEN 1 + InvocationsOn(frames, d, k,
                           FrameRateDecorator_process_frame(d, NextFrame, time),
                           FrameRateDecorator_process_frame(d, NextFrame, time).t)
    ELSE InvocationsFrom(frames, d, k + 1, target)

Invocations(frames, d) == InvocationsFrom(frames, d, 1, NextFrame)

-----------------------------------------------------------------------------
(* The ActorStateModeler driven operation by operation *)

\* The actors and archetypes the operations are tried with
ModelerActors == {1, 2}
ModelerObjects == {CAR_TYPE, BOOST_TYPE}
ModelerNewActors == {NewActor(a, o) : a \in ModelerActors, o \in ModelerObjects}
ModelerUpdates ==
    {UpdatedAttribute(a, COMPONENT_ACTIVE_KEY, Byte(1)) : a \in ModelerActors}

\* Frames of at most two deletions, one update, and one creation or the
\* creation of one actor under both archetypes
ModelerFrames ==
    {Frame(0, 1, d, n, u) :
        d \in {<<>>} \cup {<<a>> : a \in ModelerActors}
                \cup {<<a, b>> : a \in ModelerActors, b \in ModelerActors},
        n \in {<<>>} \cup {<<na>> : na \in ModelerNewActors}
                \cup {<<NewActor(a, CAR_TYPE), NewActor(a, BOOST_TYPE)>>
                      : a \in ModelerActors},
        u \in {<<>>} \cup {<<up>> : up \in ModelerUpdates}}

\* A modeler as ActorStateModeler::new leaves it, inside a fresh processor
InitModeler ==
    /\ replay = <<>>
    /\ processor = ReplayProcessor_fresh
    /\ handler \in {h \in Closures : h.collector = "NextFrame"}
    /\ pc = "modeler"
    /\ index = 0
    /\ target_time = NextFrame
    /\ current_time = 0
    /\ result = "Ok"
    /\ last_call = None
    /\ ncalls = 0
    /\ before = processor

\* What an operation on the modeler leaves: the modeler and its result
ModelerDid(r) ==
    /\ processor' = [processor EXCEPT !.actor_state = r.m]
    /\ result' = r.err

ModelerNewActor ==
    /\ pc = "modeler"
    /\ \E na \in ModelerNewActors : ModelerDid(new_actor(processor.actor_state, na))
    /\ UNCHANGED <<replay, handler, pc, index, target_time, current_time, last_call,
                   ncalls, before>>

ModelerDeleteActor ==
    /\ pc = "modeler"
    /\ \E a \in ModelerActors : ModelerDid(delete_actor(processor.actor_state, a))
    /\ UNCHANGED <<replay, handler, pc, index, target_time, current_time, last_call,
                   ncalls, before>>

ModelerUpdateAttribute ==
    /\ pc = "modeler"
    /\ \E up \in ModelerUpdates :
           ModelerDid(update_attribute(processor.actor_state, up, index))
    /\ UNCHANGED <<replay, handler, pc, index, target_time, current_time, last_call,
                   ncalls, before>>

\* process_frame on the next frame index, for up to MaxFrames frames
ModelerProcessFrame ==
    /\ pc = "modeler"
    /\ index < MaxFrames
    /\ \E frame \in ModelerFrames :
           ModelerDid(ActorStateModeler_process_frame(processor.actor_state, frame, index))
    /\ index' = index + 1
    /\ UNCHANGED <<replay, handler, pc, target_time, current_time, last_call, ncalls,
                   before>>

NextModeler ==
    ModelerNewActor \/ ModelerDeleteActor \/ ModelerUpdateAttribute \/ ModelerProcessFrame

SpecModeler == InitModeler /\ [][NextModeler]_vars

-----------------------------------------------------------------------------
(* The modeler's operations on actors with names, the latest one remembered *)

\* NewActor.name_id: Option<i32>
NameIds == {None, Some(1)}
NamedNewActors ==
    {NamedActor(a, o, n) : a \in ModelerActors, o \in ModelerObjects, n \in NameIds}

\* Frames of at most one deletion, one creation and one update, or with two
\* deletions or two creations, and how many of them process_frame is given
LifeLen == MaxFrames - 1
LifeFrames ==
    {Frame(0, 1, d, n, u) :
        d \in {<<>>} \cup {<<a>> : a \in ModelerActors} \cup {<<1, 2>>},
        n \in {<<>>} \cup {<<na>> : na \in ModelerNewActors}
                \cup {<<NewActor(1, CAR_TYPE), NewActor(2, CAR_TYPE)>>},
        u \in {<<>>} \cup {<<up>> : up \in ModelerUpdates}}

\* An operation and what it was called with, kept in last_call; before keeps
\* the processor the operation started from
Operation(op, input) == Some([op |-> op, input |-> input])

RememberNewActor ==
    /\ pc = "modeler"
    /\ \E na \in NamedNewActors :
           /\ ModelerDid(new_actor(processor.actor_state, na))
           /\ last_call' = Operation("new_actor", na)
    /\ before' = processor
    /\ UNCHANGED <<replay, handler, pc, index, target_time, current_time, ncalls>>

RememberUpdateAttribute ==
    /\ pc = "modeler"
    /\ \E up \in ModelerUpdates :
           /\ ModelerDid(update_attribute(processor.actor_state, up, index))
           /\ last_call' = Operation("update_attribute", up)
    /\ before' = processor
    /\ UNCHANGED <<replay, handler, pc, index, target_time, current_time, ncalls>>

\* process_frame on the next frame index, for up to LifeLen frames
RememberProcessFrame ==
    /\ pc = "modeler"
    /\ index < LifeLen
    /\ \E frame \in LifeFrames :
           /\ ModelerDid(ActorStateModeler_process_frame(processor.actor_state,
                                                         frame, index))
           /\ last_call' = Operation("process_frame", frame)
    /\ before' = processor
    /\ index' = index + 1
    /\ UNCHANGED <<replay, handler, pc, target_time, current_time, ncalls>>

NextLife == RememberNewActor \/ RememberUpdateAttribute \/ RememberProcessFrame

SpecLife == InitModeler /\ [][NextLife]_vars

-----------------------------------------------------------------------------
(* process on replays that carry a boost component *)

\* What a frame reports of the boost component (actor 4): the legacy amount
\* byte or nothing, the active byte, and the frame's delta in ticks
BoostAmounts == {None, Some(20), Some(255)}
BoostActives == {0, 1}
BoostDeltas == {-1, 1}

BoostChoices ==
    {[amount |-> a, active |-> c, delta |-> d]
     : a \in BoostAmounts, c \in BoostActives, d \in BoostDeltas}

\* The frame at index i (from 0) for a choice: the first frame creates the
\* component
BoostFrame(i, choice) ==
    Frame(i, choice.delta, <<>>,
          IF i = 0 THEN <<NewActor(4, BOOST_TYPE)>> ELSE <<>>,
          (IF choice.amount = None THEN <<>>
           ELSE <<UpdatedAttribute(4, BOOST_AMOUNT_KEY, Byte(choice.amount[1]))>>)
          \o <<UpdatedAttribute(4, COMPONENT_ACTIVE_KEY, Byte(choice.active))>>)

BoostReplays ==
    {[i \in 1..Len(choices) |-> BoostFrame(i - 1, choices[i])]
     : choices \in UNION {[1..n -> BoostChoices] : n \in 1..MaxFrames}}

InitBoost ==
    /\ replay \in BoostReplays
    /\ processor \in ReplayProcessor_new(replay)
    /\ handler \in {h \in Closures : h.collector = "NextFrame"}
    /\ pc = "frame"
    /\ index = 0
    /\ target_time = NextFrame
    /\ current_time = 0
    /\ result = "Running"
    /\ last_call = None
    /\ ncalls = 0
    /\ before = processor

SpecBoost == InitBoost /\ [][Next]_vars

-----------------------------------------------------------------------------
(* process on replays that carry demolitions *)

\* Players 9 and 10 (actors 1 and 2) and the game actor 8, at frame 0
DemolishCast ==
    Content(<<>>,
            <<NewActor(1, PLAYER_TYPE), NewActor(2, PLAYER_TYPE), NewActor(8, GAME_TYPE)>>,
            <<UpdatedAttribute(1, UNIQUE_ID_KEY, UniqueId(9)),
              UpdatedAttribute(2, UNIQUE_ID_KEY, UniqueId(10)),
              UpdatedAttribute(8, SECONDS_REMAINING_KEY, IntAttr(30))>>)

\* The player actor that drives a car: car 5 is player 9's, car 6 player 10's
DriverOf(car) == car - 4

\* A car is created and tied to its player
CarJoins(car, linked) ==
    Content(<<>>, <<NewActor(car, CAR_TYPE)>>,
            IF linked
            THEN <<UpdatedAttribute(car, PLAYER_REPLICATION_KEY, ActiveActor(DriverOf(car)))>>
            ELSE <<>>)

\* A car reports that car 5 demolished car 6
CarReports(car) ==
    Content(<<>>, <<>>,
            <<UpdatedAttribute(car, DEMOLISH_GOAL_EXPLOSION_KEY, DemolishFx(5, 6))>>)

CarLeaves(car) == Content(<<car>>, <<>>, <<>>)

Both(c, d) ==
    Content(c.deleted_actors \o d.deleted_actors, c.new_actors \o d.new_actors,
            c.updated_actors \o d.updated_actors)

\* The part a car plays in frame i when it is to carry the report on the
\* frames of sightings and on no others: it appears with the report on a
\* frame of sightings and is deleted on the first frame after
CarSighted(car, linked, sightings, i) ==
    IF i \in sightings /\ (i - 1) \notin sightings
    THEN Both(CarJoins(car, linked), CarReports(car))
    ELSE IF i \notin sightings /\ (i - 1) \in sightings THEN CarLeaves(car)
    ELSE Quiet

\* Frame i of a demolition script.  The victim's car 6 carries the report on
\* the frames of sightings; in the variant both the attacker's car 5 carries
\* the same value on the same frames, otherwise it is there from frame 0
\* without a report; in the variant ~linked car 6 is tied to no player.
DemolishContent(both, linked, sightings, i) ==
    Both(IF i = 0 THEN DemolishCast ELSE Quiet,
         Both(IF both THEN CarSighted(5, TRUE, sightings, i)
              ELSE IF i = 0 THEN CarJoins(5, TRUE) ELSE Quiet,
              CarSighted(6, linked, sightings, i)))

\* Frame indices of the sightings, around the dedup window
DemolishSightings ==
    LET w == MAX_DEMOLISH_KNOWN_FRAMES_PASSED
    IN {{w, w + 20, 3 * w}, w..(3 * w), {w, 2 * w - 1, 2 * w}, {0, w - 1, w}}

DemolishLen == 3 * MAX_DEMOLISH_KNOWN_FRAMES_PASSED + 1

\* Frame i of a script in which car 6 appears with the report tied to no
\* player and is tied to player 10 on the next frame, if it is still there
LateLinkContent(sightings, i) ==
    Both(DemolishContent(FALSE, FALSE, sightings, i),
         IF i \in sightings /\ (i - 1) \in sightings /\ (i - 2) \notin sightings
         THEN Content(<<>>, <<>>,
                      <<UpdatedAttribute(6, PLAYER_REPLICATION_KEY, ActiveActor(DriverOf(6)))>>)
         ELSE Quiet)

\* The updates without the game actor's SecondsRemaining
WithoutClock(updated_actors) ==
    SelectSeq(updated_actors, LAMBDA u : u.object_id # SECONDS_REMAINING_KEY)

DemolishReplays ==
    {[k \in 1..DemolishLen |->
        LET c == DemolishContent(both, linked, sightings, k - 1)
        IN Frame(k - 1, 1, c.deleted_actors, c.new_actors, c.updated_actors)]
     : both \in BOOLEAN, linked \in BOOLEAN, sightings \in DemolishSightings}
    \cup
    {[k \in 1..DemolishLen |->
        LET c == LateLinkContent(sightings, k - 1)
        IN Frame(k - 1, 1, c.deleted_actors, c.new_actors, c.updated_actors)]
     : sightings \in DemolishSightings}
    \cup
    {[k \in 1..DemolishLen |->
        LET c == DemolishContent(FALSE, TRUE, sightings, k - 1)
        IN Frame(k - 1, 1, c.deleted_actors, c.new_actors,
                 WithoutClock(c.updated_actors))]
     : sightings \in DemolishSightings}

InitDemolish ==
    /\ replay \in DemolishReplays
    /\ processor \in ReplayProcessor_new(replay)
    /\ handler \in {h \in Closures : h.collector = "NextFrame"}
    /\ pc = "frame"
    /\ index = 0
    /\ target_time = NextFrame
    /\ current_time = 0
    /\ result = "Running"
    /\ last_call = None
    /\ ncalls = 0
    /\ before = processor

SpecDemolish == InitDemolish /\ [][Next]_vars

-----------------------------------------------------------------------------
(* process with the NDArrayCollector and the ReplayDataCollector *)

\* The ball (actor 7) is created, or reports again, with a rigid body whose
\* location tells the frame i it was sent on
BallReports(i, sleeping) ==
    Content(<<>>, <<NewActor(7, BALL_TYPES[1])>>,
            <<UpdatedAttribute(7, RIGID_BODY_STATE_KEY, RigidBody(24 * (i + 1), sleeping))>>)

\* The ball is created, or reports again, with its bIgnoreSyncing flag
BallSyncing(ignore) ==
    Content(<<>>, <<NewActor(7, BALL_TYPES[1])>>,
            <<UpdatedAttribute(7, IGNORE_SYNCING_KEY, Boolean(ignore))>>)

BallGone == Content(<<7>>, <<>>, <<>>)

\* The game actor 8 with its clock
GameStarts ==
    Content(<<>>, <<NewActor(8, GAME_TYPE)>>,
            <<UpdatedAttribute(8, SECONDS_REMAINING_KEY, IntAttr(30))>>)

\* The game actor, player 10 (actor 2, car 6) on team 0 and player 9 (actor
\* 1, car 5, boost component 4) on team 1, both named, their cars awake; car
\* 5 reports that it demolished car 6.
CastJoins ==
    Both(GameStarts,
         Content(<<>>,
                 <<NewActor(1, PLAYER_TYPE), NewActor(2, PLAYER_TYPE),
                   NewActor(3, TEAM_ZERO_TYPE), NewActor(11, TEAM_ONE_TYPE),
                   NewActor(5, CAR_TYPE), NewActor(6, CAR_TYPE), NewActor(4, BOOST_TYPE)>>,
                 <<UpdatedAttribute(1, UNIQUE_ID_KEY, UniqueId(9)),
                   UpdatedAttribute(2, UNIQUE_ID_KEY, UniqueId(10)),
                   UpdatedAttribute(1, PLAYER_NAME_KEY, String("nine")),
                   UpdatedAttribute(2, PLAYER_NAME_KEY, String("ten")),
                   UpdatedAttribute(1, TEAM_KEY, ActiveActor(11)),
                   UpdatedAttribute(2, TEAM_KEY, ActiveActor(3)),
                   UpdatedAttribute(5, PLAYER_REPLICATION_KEY, ActiveActor(1)),
                   UpdatedAttribute(6, PLAYER_REPLICATION_KEY, ActiveActor(2)),
                   UpdatedAttribute(5, RIGID_BODY_STATE_KEY, RigidBody(48, FALSE)),
                   UpdatedAttribute(6, RIGID_BODY_STATE_KEY, RigidBody(96, FALSE)),
                   UpdatedAttribute(4, VEHICLE_KEY, ActiveActor(5)),
                   UpdatedAttribute(4, BOOST_AMOUNT_KEY, Byte(20)),
                   UpdatedAttribute(5, DEMOLISH_GOAL_EXPLOSION_KEY, DemolishFx(5, 6))>>))

\* What frame i can carry
CollectEvents(i) ==
    {Quiet, BallReports(i, FALSE), BallReports(i, TRUE), BallSyncing(TRUE),
     BallSyncing(FALSE), BallGone, GameStarts, CastJoins}

\* Replays of up to MaxFrames frames, two ticks apart
CollectReplays ==
    UNION {{[k \in 1..n |->
                Frame(2 * (k - 1), 2, events[k].deleted_actors, events[k].new_actors,
                      events[k].updated_actors)]
            : events \in {e \in [1..n -> UNION {CollectEvents(i) : i \in 0..(n - 1)}] :
                             \A k \in 1..n : e[k] \in CollectEvents(k - 1)}}
           : n \in 1..MaxFrames}

\* How a collector is handed to process: by itself, or wrapped in a
\* FrameRateDecorator of one or three ticks
Wrappings ==
    {[kind |-> "Collector", target_frame_duration |-> 0],
     [kind |-> "FrameRateDecorator", target_frame_duration |-> 1],
     [kind |-> "FrameRateDecorator", target_frame_duration |-> 3]}

CollectorHandlers(collector, states) ==
    {[kind |-> w.kind, target_frame_duration |-> w.target_frame_duration,
      collector |-> collector, state |-> s] : w \in Wrappings, s \in states}

\* The feature-adder names the collectors are asked for
GameStateNames == <<"ReplicatedStateName", "ReplicatedGameStateTimeRemaining",
                    "BallHasBeenHit">>

RequestedAdders ==
    {<<<<"CurrentTime", "SecondsRemaining">>, <<"PlayerBoost", "PlayerDemolishedBy">>>>,
     <<<<"FrameTime">>, <<"PlayerDemolishedBy">>>>,
     <<GameStateNames, <<>>>>,
     <<<<"BallHasBeenHit">>, <<"PlayerBoost">>>>}

\* The collectors from_strings builds for them
NDArrayCollectors ==
    {from_strings(names[1], names[2]).value :
        names \in {n \in RequestedAdders : from_strings(n[1], n[2]).err = "Ok"}}

InitCollect(handlers) ==
    /\ replay \in CollectReplays
    /\ processor \in ReplayProcessor_new(replay)
    /\ handler \in handlers
    /\ pc = "frame"
    /\ index = 0
    /\ target_time = NextFrame
    /\ current_time = 0
    /\ result = "Running"
    /\ last_call = None
    /\ ncalls = 0
    /\ before = processor

InitNDArray == InitCollect(CollectorHandlers("NDArray", NDArrayCollectors))

SpecNDArray == InitNDArray /\ [][NextCollect]_vars

InitReplayData == InitCollect(CollectorHandlers("ReplayData", {ReplayDataCollector_new}))

SpecReplayData == InitReplayData /\ [][NextCollect]_vars

-----------------------------------------------------------------------------
(* ReplayProcessor and PlayerAnyJump: the jump components of a player's car *)

\* ReplayProcessor::get_car_connected_actor_id on the map p[map]
get_car_connected_actor_id(p, player_id, map) ==
    IF get_car_actor_id(p, player_id).err # "Ok" THEN get_car_actor_id(p, player_id)
    ELSE IF get_car_actor_id(p, player_id).value \in DOMAIN p[map]
    THEN [value |-> p[map][get_car_actor_id(p, player_id).value], err |-> "Ok"]
    ELSE [value |-> 0, err |-> "ActorNotFound"]

\* ReplayProcessor::get_component_active
get_component_active(p, actor_id) ==
    get_actor_attribute_matching(p, actor_id, COMPONENT_ACTIVE_KEY, "Byte")

\* Result::and_then(|actor_id| self.get_component_active(&actor_id))
and_then_component_active(p, r) ==
    IF r.err # "Ok" THEN r ELSE get_component_active(p, r.value)

\* ReplayProcessor::get_jump_active, get_double_jump_active, get_dodge_active
get_jump_active(p, player_id) ==
    and_then_component_active(p, get_car_connected_actor_id(p, player_id, "car_to_jump"))

get_double_jump_active(p, player_id) ==
    and_then_component_active(p, get_car_connected_actor_id(p, player_id,
                                                            "car_to_double_jump"))

get_dodge_active(p, player_id) ==
    and_then_component_active(p, get_car_connected_actor_id(p, player_id, "car_to_dodge"))

\* Result::unwrap_or(0) followed by % 2
unwrap_or_zero_mod_2(r) == (IF r.err = "Ok" THEN r.value ELSE 0) % 2

\* The array with the jump bit first
is_active_jump_first(p, player_id) ==
    <<unwrap_or_zero_mod_2(get_jump_active(p, player_id)),
      unwrap_or_zero_mod_2(get_dodge_active(p, player_id)),
      unwrap_or_zero_mod_2(get_double_jump_active(p, player_id))>>

\* PlayerAnyJump, lines 1208-1211: [dodge_is_active, jump_is_active,
\* double_jump_is_active]
is_active(p, player_id) ==
    <<unwrap_or_zero_mod_2(get_dodge_active(p, player_id)),
      unwrap_or_zero_mod_2(get_jump_active(p, player_id)),
      unwrap_or_zero_mod_2(get_double_jump_active(p, player_id))>>

\* .enumerate().map(|(index, is_active)| (1 << index) * is_active).sum::<u8>()
\* from position k (from 1; enumerate counts from 0) on
RECURSIVE shifted_sum(_, _)
shifted_sum(bits, k) ==
    IF k > Len(bits) THEN 0
    ELSE ((2 ^ (k - 1)) * bits[k] + shifted_sum(bits, k + 1)) % 256

\* The closure of PlayerAnyJump: the value of its one column
PlayerAnyJump(p, player_id) == shifted_sum(is_active(p, player_id), 1)

-----------------------------------------------------------------------------
(* process on replays of a match: four players, a car with its jump        *)
(* components, and a ball                                                  *)

\* The game actor 8; players 9, 10 and 100 (actors 1, 2 and 12) on team 0
\* (actor 3) and player 20 (actor 13) on team 1 (actor 11); car 5 of player 9
\* with its jump, dodge and double-jump components 14, 15 and 16
Kickoff ==
    Content(<<>>,
            <<NewActor(8, GAME_TYPE), NewActor(1, PLAYER_TYPE), NewActor(2, PLAYER_TYPE),
              NewActor(12, PLAYER_TYPE), NewActor(13, PLAYER_TYPE),
              NewActor(3, TEAM_ZERO_TYPE), NewActor(11, TEAM_ONE_TYPE),
              NewActor(5, CAR_TYPE), NewActor(14, JUMP_TYPE), NewActor(15, DODGE_TYPE),
              NewActor(16, DOUBLE_JUMP_TYPE)>>,
            <<UpdatedAttribute(8, SECONDS_REMAINING_KEY, IntAttr(30)),
              UpdatedAttribute(1, UNIQUE_ID_KEY, UniqueId(9)),
              UpdatedAttribute(2, UNIQUE_ID_KEY, UniqueId(10)),
              UpdatedAttribute(12, UNIQUE_ID_KEY, UniqueId(100)),
              UpdatedAttribute(13, UNIQUE_ID_KEY, UniqueId(20)),
              UpdatedAttribute(1, TEAM_KEY, ActiveActor(3)),
              UpdatedAttribute(2, TEAM_KEY, ActiveActor(3)),
              UpdatedAttribute(12, TEAM_KEY, ActiveActor(3)),
              UpdatedAttribute(13, TEAM_KEY, ActiveActor(11)),
              UpdatedAttribute(5, PLAYER_REPLICATION_KEY, ActiveActor(1)),
              UpdatedAttribute(14, VEHICLE_KEY, ActiveActor(5)),
              UpdatedAttribute(15, VEHICLE_KEY, ActiveActor(5)),
              UpdatedAttribute(16, VEHICLE_KEY, ActiveActor(5))>>)

\* The components report their active bytes (None: no report); a component
\* that was not there is created, tied to no car
ComponentsReport(dodge, jump, double_jump) ==
    Content(<<>>,
            <<NewActor(14, JUMP_TYPE), NewActor(15, DODGE_TYPE),
              NewActor(16, DOUBLE_JUMP_TYPE)>>,
            (IF dodge = None THEN <<>>
             ELSE <<UpdatedAttribute(15, COMPONENT_ACTIVE_KEY, Byte(dodge[1]))>>)
            \o (IF jump = None THEN <<>>
                ELSE <<UpdatedAttribute(14, COMPONENT_ACTIVE_KEY, Byte(jump[1]))>>)
            \o (IF double_jump = None THEN <<>>
                ELSE <<UpdatedAttribute(16, COMPONENT_ACTIVE_KEY, Byte(double_jump[1]))>>))

\* Car 5 is deleted
CarGone == Content(<<5>>, <<>>, <<>>)

\* The ball (actor 7) is created
BallArrives == Content(<<>>, <<NewActor(7, BALL_TYPES[1])>>, <<>>)

\* The ball is deleted and a ball is created under the same ActorId
BallRespawns == Content(<<7>>, <<NewActor(7, BALL_TYPES[1])>>, <<>>)

\* ActorIds are used again: car 5 and player actor 12 (player 100) are
\* deleted, a car of player actor 2 is created as actor 5 and player 30 joins
\* as actor 12
Recycled ==
    Content(<<5, 12>>,
            <<NewActor(5, CAR_TYPE), NewActor(12, PLAYER_TYPE)>>,
            <<UpdatedAttribute(5, PLAYER_REPLICATION_KEY, ActiveActor(2)),
              UpdatedAttribute(12, UNIQUE_ID_KEY, UniqueId(30))>>)

\* What a frame of a match can carry
MatchEvents ==
    {Quiet, Kickoff, ComponentsReport(None, Some(1), None),
     ComponentsReport(Some(1), Some(1), Some(1)),
     ComponentsReport(Some(2), Some(3), Some(255)), CarGone, BallArrives, BallRespawns,
     Recycled}

\* Replays of up to MaxFrames frames, one tick apart
MatchReplays ==
    UNION {{[k \in 1..n |->
                Frame(k - 1, 1, events[k].deleted_actors, events[k].new_actors,
                      events[k].updated_actors)]
            : events \in [1..n -> MatchEvents]}
           : n \in 1..MaxFrames}

InitMatch ==
    /\ replay \in MatchReplays
    /\ processor \in ReplayProcessor_new(replay)
    /\ handler \in {h \in Closures : h.collector = "NextFrame"}
    /\ pc = "frame"
    /\ index = 0
    /\ target_time = NextFrame
    /\ current_time = 0
    /\ result = "Running"
    /\ last_call = None
    /\ ncalls = 0
    /\ before = processor

SpecMatch == InitMatch /\ [][Next]_vars

-----------------------------------------------------------------------------
(* util::get_interpolated_rigid_body called by itself *)

\* The bodies and the times the function is called with
InterpolatedBodies == {[location |-> l, sleeping |-> s] : l \in {0, 12, 24}, s \in BOOLEAN}
InterpolationTimes == 0..(MaxTime + 1)

\* The arguments of the call are taken; last_call holds them
InitInterpolate ==
    /\ replay = <<>>
    /\ processor = ReplayProcessor_fresh
    /\ handler \in {h \in Closures : h.collector = "NextFrame"}
    /\ pc = "interpolate"
    /\ index = 0
    /\ target_time = NextFrame
    /\ current_time \in InterpolationTimes
    /\ result = "Running"
    /\ last_call \in {Some([start_body |-> a, start_time |-> t_a, end_body |-> b,
                            end_time |-> t_b])
                      : a \in InterpolatedBodies, t_a \in InterpolationTimes,
                        b \in InterpolatedBodies, t_b \in InterpolationTimes}
    /\ ncalls = 0
    /\ before = processor

\* The call with current_time as the time to interpolate to; result holds
\* what it returned
Interpolate ==
    /\ pc = "interpolate"
    /\ pc' = "interpolated"
    /\ result' = get_interpolated_rigid_body(
                     last_call[1].start_body, last_call[1].start_time,
                     last_call[1].end_body, last_call[1].end_time, current_time)
    /\ UNCHANGED <<replay, processor, handler, index, target_time, current_time,
                   last_call, ncalls, before>>

NextInterpolate == Interpolate

SpecInterpolate == InitInterpolate /\ [][NextInterpolate]_vars

-----------------------------------------------------------------------------
(* Properties of ReplayProcessor::process under Spec *)

\* The frame process is working on
CurrentFrame == replay[index + 1]

\* The answer of the latest collector invocation
LastAnswer == last_call[1].answer

\* The processors that the five steps of lines 247-251, each taken from its
\* own definition and all of them succeeding, leave when applied to p in the
\* order of the code
AfterAllSteps(p, frame, i) ==
    UNION {UNION {UNION {UNION {{d.p : d \in {x \in update_demolishes(b.p, frame, i)
                                                : x.err = "Ok"}}
        : b \in {x \in {update_boost_amounts(l.p, frame, i)} : x.err = "Ok"}}
        : l \in {x \in {update_ball_id(m.p, frame)} : x.err = "Ok"}}
        : m \in {x \in {update_mappings(a.p, frame)} : x.err = "Ok"}}
        : a \in {x \in {actor_state_process_frame(p, frame, i)} : x.err = "Ok"}}

\* C1, state part: whenever the collector is about to be invoked on frame
\* index, the processor is the one the frame was read with (before) after all
\* of the frame's steps: deletions, creations and updates, relationship
\* refresh, ball id, boost integration and demolish extraction.
C1_AllStepsApplied ==
    pc = "collect" => processor \in AfterAllSteps(before, CurrentFrame, index)

\* C1, step part: the frame index never goes back and moves by one frame at
\* a time, the processor is left alone while the collector is being invoked
\* on a frame, and it changes only where the next frame is read.
C1_InOrder ==
    /\ index' \in {index, index + 1}
    /\ pc = "collect" => processor' = processor
    /\ processor' # processor => pc = "frame" /\ before' = processor

\* C1: every collector invocation for frame i happens after all of frame i's
\* steps have been applied, and frames are applied and presented in strictly
\* increasing index order, frame i+1 only once frame i's invocations are over.
C1_StepsBeforeCollector == [](C1_AllStepsApplied) /\ [][C1_InOrder]_vars

\* C1 witness: the collector is about to see frame 1 with the boost
\* component's derived amount written by that frame's boost integration.
C1_Witness ==
    /\ pc = "collect"
    /\ index = 1
    /\ before # processor
    /\ 4 \in DOMAIN processor.actor_state.actor_states
    /\ BOOST_AMOUNT_KEY \in DOMAIN processor.actor_state.actor_states[4].derived_attributes

\* C2: if the collector invoked on frame i returns Time(t') with t' at most
\* frame i's time, the next thing process does is invoke it again on the same
\* frame with current_time = t', and the processor state is the same at both
\* invocations.
C2_ReinvokedOnSameFrame ==
    [][(/\ pc = "collect"
        /\ last_call'[1].answer.tag = "Time"
        /\ last_call'[1].answer.t <= CurrentFrame.time)
       => (/\ pc' = "collect"
           /\ index' = index
           /\ current_time' = last_call'[1].answer.t
           /\ processor' = processor
           /\ before' = before)]_vars

\* C2 witness: a second invocation is pending on the frame of the latest
\* one, at the time that one returned.
C2_Witness ==
    /\ pc = "collect"
    /\ last_call # None
    /\ last_call[1].index = index
    /\ LastAnswer.tag = "Time"
    /\ LastAnswer.t = current_time
    /\ current_time > last_call[1].current_time

\* Did the latest invocation return a time past the frame it was made on
AskedForLater ==
    /\ last_call # None
    /\ LastAnswer.tag = "Time"
    /\ LastAnswer.t > replay[last_call[1].index + 1].time

\* The frames from just after the latest invocation's up to, not including,
\* frame n all lie before the time that invocation asked for.
SkippedBelow(n) ==
    \A j \in (last_call[1].index + 1)..(n - 1) : replay[j + 1].time < LastAnswer.t

\* C3, state part: after the collector asked for a time t' past its frame, the
\* frames process has gone past without invoking it all lie before t'; an
\* invocation happens on a later frame whose time is at least t', at
\* current_time = t'; and when the frames run out process returns Ok.
C3_NextInvocation ==
    AskedForLater =>
        /\ pc = "collect" => /\ index > last_call[1].index
                             /\ current_time = LastAnswer.t
                             /\ CurrentFrame.time >= LastAnswer.t
                             /\ SkippedBelow(index)
        /\ pc = "frame" => index > last_call[1].index /\ SkippedBelow(index)
        /\ pc = "done" => result = "Ok" /\ SkippedBelow(Len(replay))

\* C3, step part: a frame process passes without invoking the collector has
\* had all its steps applied to the processor.
C3_SkippedFrameApplied ==
    (pc = "frame" /\ pc' = "frame" /\ index' = index + 1)
        => processor' \in AfterAllSteps(processor, CurrentFrame, index)

\* C3: if the collector returns Time(t') with t' past the frame's time, the
\* following frames below t' are applied without the collector being invoked,
\* the next invocation is on the first frame at or past t' with
\* current_time = t', and with no such frame process returns Ok without
\* another invocation.
C3_SkipsToTargetTime == [](C3_NextInvocation) /\ [][C3_SkippedFrameApplied]_vars

\* C3 witness: the collector is about to be invoked two frames after its
\* latest invocation, at the time it asked for, which is not the frame's time.
C3_Witness ==
    /\ AskedForLater
    /\ pc = "collect"
    /\ index >= last_call[1].index + 2
    /\ current_time = LastAnswer.t
    /\ current_time < CurrentFrame.time

\* C4: a collector that always returns NextFrame is invoked exactly once on
\* every frame, in frame order, with current_time equal to the frame's time:
\* when frame index is reached it has been invoked index times, the latest
\* time on frame index - 1, and at the end once per frame of the replay.
C4_OncePerFrame ==
    (handler.kind = "Closure" /\ handler.collector = "NextFrame") =>
        /\ pc \in {"frame", "collect", "error"} =>
               /\ ncalls = index
               /\ index > 0 => last_call # None /\ last_call[1].index = index - 1
               /\ index = 0 => last_call = None
        /\ pc = "collect" => current_time = CurrentFrame.time
        /\ pc = "done" => ncalls = Len(replay)
        /\ last_call # None =>
               last_call[1].current_time = replay[last_call[1].index + 1].time

\* C4 witness: process has returned after one invocation on each frame of a
\* replay of MaxFrames frames.
C4_Witness ==
    /\ handler.kind = "Closure"
    /\ handler.collector = "NextFrame"
    /\ pc = "done"
    /\ Len(replay) = MaxFrames
    /\ ncalls = MaxFrames
    /\ last_call[1].index = MaxFrames - 1

\* The PlayerIds of the discovery-pass roster: team_zero followed by team_one
Roster == Range(processor.team_zero) \cup Range(processor.team_one)

\* C7 as claimed: process returns Ok only when the PlayerIds observed during
\* the run, the keys of player_to_actor_id, are exactly those of the roster.
C7_OkOnlyIfRosterMatches ==
    (pc = "done" /\ result = "Ok") => DOMAIN processor.player_to_actor_id = Roster

\* C8, state part: once an invocation has returned an error, process has
\* returned that error, on the frame of the invocation.
C8_ErrorReturned ==
    (last_call # None /\ LastAnswer.tag = "Err") =>
        /\ pc = "error"
        /\ result = "CollectorError"
        /\ index = last_call[1].index

\* C8, step part: after process has returned an error nothing happens any
\* more, and an invocation leaves the processor as the frame's steps made it.
C8_NothingAfterError ==
    /\ pc # "error"
    /\ last_call' # last_call => processor' = processor /\ before' = before

\* C8: when the collector returns an error, process returns it at once: no
\* later frame is applied, the collector is not invoked again, and the state
\* applied up to the current frame is kept.
C8_CollectorErrorStops == [](C8_ErrorReturned) /\ [][C8_NothingAfterError]_vars

\* C8 witness: process has returned the collector's error on the second
\* frame, with the player of the first frame still known to the processor.
C8_Witness ==
    /\ pc = "error"
    /\ result = "CollectorError"
    /\ LastAnswer.tag = "Err"
    /\ index = 1
    /\ processor \in AfterAllSteps(before, CurrentFrame, index)
    /\ DOMAIN processor.player_to_actor_id # {}

-----------------------------------------------------------------------------
(* Properties of the FrameRateDecorator under SpecDecorator *)

Decorated == handler.kind = "FrameRateDecorator"

\* C5 as claimed: with a target_frame_duration of 0 or less around a
\* collector that always returns NextFrame, process invokes the collector on
\* every frame and returns after the last one.
C5_ZeroDurationTerminates ==
    (Decorated /\ handler.target_frame_duration <= 0 /\ handler.collector = "NextFrame")
        => <>(pc \in {"done", "error"})

\* C6, the returned advance: from an invocation at current_time c a decorator
\* of duration d > 0 returns Time(c + d) for NextFrame and Time(max(t', c + d))
\* for Time(t'), so always a Time at least d past c.
C6_Returned ==
    (Decorated /\ handler.target_frame_duration > 0 /\ last_call # None
        /\ LastAnswer.tag # "Err") =>
        /\ LastAnswer.tag = "Time"
        /\ LastAnswer.t >= last_call[1].current_time + handler.target_frame_duration
        /\ last_call[1].inner.tag = "NextFrame" =>
               LastAnswer.t = last_call[1].current_time + handler.target_frame_duration
        /\ last_call[1].inner.tag = "Time" =>
               LastAnswer.t = Max(last_call[1].inner.t,
                                  last_call[1].current_time + handler.target_frame_duration)

\* C6, consecutive invocations: the invocation about to be made is at least
\* d after the latest one.
C6_Apart ==
    (Decorated /\ handler.target_frame_duration > 0 /\ pc = "collect"
        /\ last_call # None) =>
        current_time >= last_call[1].current_time + handler.target_frame_duration

\* C6, frame rate: around a collector that always returns NextFrame, the
\* number of invocations of a finished run is the one the loop yields for
\* the replay and d, and no shorter duration (higher fps) yields fewer.
C6_HigherFpsNotFewer ==
    (Decorated /\ handler.target_frame_duration > 0 /\ handler.collector = "NextFrame"
        /\ pc = "done") =>
        /\ ncalls = Invocations(replay, handler.target_frame_duration)
        /\ \A d \in 1..handler.target_frame_duration : Invocations(replay, d) >= ncalls

\* C6: with a FrameRateDecorator of duration d > 0 the advance returned at
\* current_time c is Time(t) with t >= c + d, two consecutive invocations of
\* the inner collector are at least d apart, and a higher fps never yields
\* fewer invocations over the same replay.
C6_AtMostOncePerInterval == C6_Returned /\ C6_Apart /\ C6_HigherFpsNotFewer

\* C6 witness: a finished run at duration 2 in which the collector was
\* invoked twice, two ticks apart, the second time where it would have been
\* invoked a third time at duration 1.
C6_Witness ==
    /\ Decorated
    /\ handler.target_frame_duration = 2
    /\ handler.collector = "NextFrame"
    /\ pc = "done"
    /\ ncalls = 2
    /\ last_call[1].current_time = replay[1].time + 2
    /\ Invocations(replay, 1) > ncalls

-----------------------------------------------------------------------------
(* Properties of the ActorStateModeler under SpecModeler *)

\* How often actor_id occurs in the vector ids
RECURSIVE Occurrences(_, _)
Occurrences(ids, actor_id) ==
    IF ids = <<>> THEN 0
    ELSE (IF Head(ids) = actor_id THEN 1 ELSE 0) + Occurrences(Tail(ids), actor_id)

\* Every ActorId the modeler m mentions, in either map
MentionedActors(m) ==
    DOMAIN m.actor_states
        \cup UNION {Range(m.actor_ids_by_type[o]) : o \in DOMAIN m.actor_ids_by_type}

\* C9: after every new_actor, delete_actor and update_attribute and every
\* process_frame, failed or not, an ActorId is a key of actor_states exactly
\* if it occurs in actor_ids_by_type, and then once, in the vector of the
\* actor's object_id, and in no other vector.
C9_MapsAgree ==
    \A a \in MentionedActors(processor.actor_state) :
        /\ a \in DOMAIN processor.actor_state.actor_states
        /\ processor.actor_state.actor_states[a].object_id
               \in DOMAIN processor.actor_state.actor_ids_by_type
        /\ \A o \in DOMAIN processor.actor_state.actor_ids_by_type :
               Occurrences(processor.actor_state.actor_ids_by_type[o], a)
                   = IF o = processor.actor_state.actor_states[a].object_id THEN 1 ELSE 0

\* C9 witness: a process_frame has failed on the second of two deletions,
\* leaving the first deletion done and another actor in both maps.
C9_Witness ==
    /\ pc = "modeler"
    /\ index > 0
    /\ result = "NoStateForActorId"
    /\ DOMAIN processor.actor_state.actor_states = {2}
    /\ DOMAIN processor.actor_state.actor_ids_by_type = {CAR_TYPE, BOOST_TYPE}
    /\ processor.actor_state.actor_ids_by_type[CAR_TYPE] = <<>>
    /\ processor.actor_state.actor_ids_by_type[BOOST_TYPE] = <<2>>

-----------------------------------------------------------------------------
(* Properties of the boost integration under SpecBoost *)

\* The frames whose steps have been applied
Applied == IF pc = "collect" THEN index + 1 ELSE index

\* The boost components that carry a derived amount
WithDerivedBoost ==
    {a \in Range(get_actor_ids_by_object_id(processor, BOOST_TYPE)) :
        BOOST_AMOUNT_KEY \in DOMAIN processor.actor_state.actor_states[a].derived_attributes}

DerivedBoost(a) ==
    processor.actor_state.actor_states[a].derived_attributes[BOOST_AMOUNT_KEY][1].value

\* The ticks by which the applied frames' negative deltas run backwards
RECURSIVE NegativeDelta(_)
NegativeDelta(n) ==
    IF n = 0 THEN 0
    ELSE NegativeDelta(n - 1) + (IF replay[n].delta < 0 THEN -replay[n].delta ELSE 0)

WireAmounts(frame, a) ==
    SelectSeq(frame.updated_actors,
              LAMBDA u : u.actor_id = a /\ u.object_id = BOOST_AMOUNT_KEY)

\* The component is reported active by every applied frame, every applied
\* frame has a delta of one tick, and only the first frame reports an amount
DrainingFromFirstReading ==
    /\ Applied >= 1
    /\ WireAmounts(replay[1], 4) # <<>>
    /\ \A k \in 1..Applied :
        /\ replay[k].delta = 1
        /\ \E i \in 1..Len(replay[k].updated_actors) :
              replay[k].updated_actors[i] = UpdatedAttribute(4, COMPONENT_ACTIVE_KEY, Byte(1))
        /\ k > 1 => WireAmounts(replay[k], 4) = <<>>

\* C11 as claimed: a boost component first observed with wire amount W and
\* active on that same frame, with no further amount update, has after k
\* frames of delta d the derived BoostAmount max(0, W - k * d *
\* BOOST_USED_PER_SECOND).
C11_DrainsFromFirstReading ==
    DrainingFromFirstReading =>
        /\ 4 \in WithDerivedBoost
        /\ DerivedBoost(4) =
              MaxZero(ByteToFloat(WireAmounts(replay[1], 4)[1].attribute.value)
                      - Applied * BOOST_USED_PER_TICK)

\* C12 as claimed, for the frames after the one that creates the component:
\* on every frame that carries a boost-amount update the derived BoostAmount
\* is that wire amount, less the frame's drain if the component is active,
\* also when the byte equals the previous reading.
C12_ResetOnWireUpdate ==
    (Applied >= 2 /\ WireAmounts(replay[Applied], 4) # <<>>) =>
        /\ 4 \in WithDerivedBoost
        /\ DerivedBoost(4) =
              MaxZero(ByteToFloat(WireAmounts(replay[Applied], 4)[1].attribute.value)
                      - (IF get_current_boost_values(
                                processor.actor_state.actor_states[4]).is_active
                         THEN replay[Applied].delta * BOOST_USED_PER_TICK ELSE 0))

-----------------------------------------------------------------------------
(* Properties of the demolish log under SpecDemolish *)

\* C13 as claimed: the demolish log never holds two entries of the same
\* DemolishFx value (here: the same attacker and victim) whose frame indices
\* differ by less than MAX_DEMOLISH_KNOWN_FRAMES_PASSED, also when several
\* cars carry the value on one frame.
C13_NoDuplicateWithinWindow ==
    \A i, j \in 1..Len(processor.demolishes) :
        (i < j /\ processor.demolishes[i].attacker = processor.demolishes[j].attacker
               /\ processor.demolishes[i].victim = processor.demolishes[j].victim) =>
            Abs(processor.demolishes[i].frame - processor.demolishes[j].frame)
                >= MAX_DEMOLISH_KNOWN_FRAMES_PASSED

\* The actors for which a frame carries an update of the attribute key
UpdatedWith(frame, key) ==
    {frame.updated_actors[k].actor_id :
        k \in {k \in 1..Len(frame.updated_actors) : frame.updated_actors[k].object_id = key}}

\* The frame applied last and the DemolishFx value of the scripts
LastIndex == Applied - 1

TheDemolish == DemolishFx(5, 6).value

\* The sightings of the frame applied last: the cars that carry the value
SightedOn ==
    {a \in Range(get_actor_ids_by_object_id(processor, CAR_TYPE)) :
        /\ DEMOLISH_GOAL_EXPLOSION_KEY \in DOMAIN processor.actor_state.actor_states[a].attributes
        /\ processor.actor_state.actor_states[a].attributes[DEMOLISH_GOAL_EXPLOSION_KEY][1]
              = DemolishFx(5, 6)}

\* Before the frame the dedup window held an entry of the value fewer than
\* MAX_DEMOLISH_KNOWN_FRAMES_PASSED frames back
InDedupWindow ==
    \E k \in 1..Len(before.known_demolishes) :
        /\ before.known_demolishes[k][1] = TheDemolish
        /\ LastIndex - before.known_demolishes[k][2] < MAX_DEMOLISH_KNOWN_FRAMES_PASSED

\* The value is resolvable: by the frame applied last the replay has tied
\* both of its cars to players and given the game actor its SecondsRemaining
Resolvable ==
    /\ \A car \in {5, 6} :
           \E j \in 0..LastIndex : car \in UpdatedWith(replay[j + 1], PLAYER_REPLICATION_KEY)
    /\ \E j \in 0..LastIndex : 8 \in UpdatedWith(replay[j + 1], SECONDS_REMAINING_KEY)

\* The entry of a sighting on the frame applied last
EntryOfLast ==
    [time |-> replay[Applied].time, seconds_remaining |-> 30, frame |-> LastIndex,
     attacker |-> 9, victim |-> 10]

\* The replay of the scenario: car 6 alone carries the value, on frames 100,
\* 120 and 300 and on no others
ScenarioReplay ==
    [k \in 1..DemolishLen |->
        LET c == DemolishContent(FALSE, TRUE, {100, 120, 300}, k - 1)
        IN Frame(k - 1, 1, c.deleted_actors, c.new_actors, c.updated_actors)]

LogFrames == [k \in 1..Len(processor.demolishes) |-> processor.demolishes[k].frame]

\* C14: a sighting of a resolvable DemolishFx value on a car fewer than 100
\* frames after an entry of the same value in the dedup window adds nothing
\* to the log, and a sighting with no such entry adds one log entry stamped
\* with the current frame (of player 9 demolishing player 10, at the frame's
\* time); an unresolvable value adds nothing.  Every car that carries the
\* value is a sighting, and the window is the one the frame found.  A value
\* seen at frames 100 and 120 gives one entry with frame 100, and seen again
\* at frame 300 a second.
C14_OneEntryPerWindow ==
    /\ Applied = 0 => processor.demolishes = <<>>
    /\ Applied > 0 =>
         processor.demolishes =
            before.demolishes \o
               (IF Resolvable /\ ~InDedupWindow
                THEN [k \in 1..Cardinality(SightedOn) |-> EntryOfLast] ELSE <<>>)
    /\ replay = ScenarioReplay =>
         LogFrames = IF Applied <= 100 THEN <<>>
                     ELSE IF Applied <= 300 THEN <<100>> ELSE <<100, 300>>

\* C14 witness: the run of the scenario is over and the log holds the
\* entries of frames 100 and 300.
C14_Witness ==
    /\ pc = "done"
    /\ replay = ScenarioReplay
    /\ LogFrames = <<100, 300>>

-----------------------------------------------------------------------------
(* Properties of the NDArrayCollector under SpecNDArray *)

\* The collector handed to process
Collector == handler.state

\* Iterator::sum
RECURSIVE Sum(_)
Sum(s) == IF s = <<>> THEN 0 ELSE Head(s) + Sum(Tail(s))

\* The width of a full row for the processor's roster: the adders' column
\* counts, the per-player ones once per player
RowWidth ==
    Sum([i \in 1..Len(Collector.feature_adders) |->
            Len(global_column_headers(Collector.feature_adders[i]))])
    + Len(iter_player_ids_in_order(processor))
      * Sum([i \in 1..Len(Collector.player_feature_adders) |->
                Len(player_column_headers(Collector.player_feature_adders[i]))])

\* C15: whenever get_meta_and_ndarray can be called, also after a run that a
\* feature adder's error ended, data holds frames_added full rows:
\* data.len() = frames_added * (sum of the global widths + player_count * sum
\* of the per-player widths), and the call does not trip over a partial row.
C15_WholeRowsOnly ==
    /\ Len(Collector.data) = Collector.frames_added * RowWidth
    /\ get_meta_and_ndarray(Collector).err # "Panic"

\* The ball is known and its state holds a rigid body that is not sleeping
BallAwake ==
    /\ processor.ball_actor_id # None
    /\ processor.ball_actor_id[1] \in DOMAIN processor.actor_state.actor_states
    /\ LET attributes ==
               processor.actor_state.actor_states[processor.ball_actor_id[1]].attributes
       IN /\ RIGID_BODY_STATE_KEY \in DOMAIN attributes
          /\ ~attributes[RIGID_BODY_STATE_KEY][1].value.sleeping

\* The name of a player of the roster is known to the processor
NameKnown(player_id) ==
    /\ player_id \in DOMAIN processor.player_to_actor_id
    /\ processor.player_to_actor_id[player_id] \in DOMAIN processor.actor_state.actor_states
    /\ PLAYER_NAME_KEY \in DOMAIN
           processor.actor_state.actor_states[processor.player_to_actor_id[player_id]]
               .attributes

\* The replay metadata is neither captured yet nor can it be on this call
MetaOutOfReach ==
    /\ Collector.replay_meta = None
    /\ \E player_id \in Range(iter_player_ids_in_order(processor)) : ~NameKnown(player_id)

\* The call of this step left data and frames_added as they were
NothingAppended ==
    /\ handler'.state.data = Collector.data
    /\ handler'.state.frames_added = Collector.frames_added

\* The call of this step appended one full row and counted it
OneRowAppended ==
    /\ Len(handler'.state.data) = Len(Collector.data) + RowWidth
    /\ SubSeq(handler'.state.data, 1, Len(Collector.data)) = Collector.data
    /\ handler'.state.frames_added = Collector.frames_added + 1

\* C16 as stated: process_frame appends nothing, leaves frames_added
\* unchanged and returns NextFrame when the ball actor is unknown, has no
\* rigid body, or its rigid body is sleeping; otherwise, on success, it
\* appends exactly one full row and increments frames_added.
C16_SkipsWithoutBall ==
    [][pc = "collect" =>
          IF ~BallAwake
          THEN NothingAppended /\ last_call'[1].inner = NextFrame
          ELSE last_call'[1].inner = NextFrame => OneRowAppended]_vars

\* C16 as amended: a call that cannot capture the replay metadata returns
\* that error and appends nothing; any other call appends nothing, leaves
\* frames_added unchanged and returns NextFrame when the ball actor is
\* unknown, has no rigid body, or its rigid body is sleeping, and otherwise,
\* on success, appends exactly one full row and increments frames_added.
C16_SkipsWithoutBallOnceMetaIsSet ==
    [][pc = "collect" =>
          IF MetaOutOfReach
          THEN NothingAppended /\ last_call'[1].inner = CollectorErr
          ELSE IF ~BallAwake
          THEN NothingAppended /\ last_call'[1].inner = NextFrame
          ELSE last_call'[1].inner = NextFrame => OneRowAppended]_vars

\* A run that returned Ok with a row added and a call that added none
C16_Witness ==
    /\ pc = "done"
    /\ result = "Ok"
    /\ handler.kind = "Collector"
    /\ Collector.frames_added >= 1
    /\ ncalls > Collector.frames_added

\* C17: from_strings accepts the global adder names ReplicatedStateName,
\* ReplicatedGameStateTimeRemaining and BallHasBeenHit, which give the
\* columns 'game state', 'kickoff countdown' and 'ball has been hit'; and on
\* a kickoff frame, where the ball's rigid body is absent or sleeping, a
\* collector built with BallHasBeenHit still emits a row.
C17_GameStateAddersAccepted ==
    /\ from_strings(GameStateNames, <<>>).err = "Ok"
    /\ get_column_headers(from_strings(GameStateNames, <<>>).value).global_headers
           = <<"game state", "kickoff countdown", "ball has been hit">>
    /\ (pc = "collect" /\ ~BallAwake) =>
           /\ from_strings(<<"BallHasBeenHit">>, <<>>).err = "Ok"
           /\ NDArrayCollector_process_frame(
                  from_strings(<<"BallHasBeenHit">>, <<>>).value, processor,
                  replay[index + 1], index, current_time).c.frames_added = 1

\* The array and the column names get_meta_and_ndarray hands out after the
\* call of this step
ArrayAfter == get_meta_and_ndarray(handler'.state).array
HeadersAfter == get_meta_and_ndarray(handler'.state).headers

\* The column name expected at position j of a row: the global adders' names
\* in registration order, then for each player of the captured roster,
\* team_zero before team_one, the per-player adders' names in registration
\* order behind the prefix "Player {index} - " (every adder of the collectors
\* here has one column)
ExpectedHeader(j) ==
    LET globals == Len(Collector.feature_adders)
        per_player == Len(Collector.player_feature_adders)
    IN IF j <= globals THEN global_column_headers(Collector.feature_adders[j])[1]
       ELSE PlayerHeader(
                (j - globals - 1) \div per_player,
                player_column_headers(
                    Collector.player_feature_adders[((j - globals - 1) % per_player) + 1])[1])

\* The value a column name stands for on the frame the collector is called
\* with, Player i being the i-th player of team_zero followed by team_one
NamedValue(header) ==
    IF header = "current time" THEN current_time
    ELSE IF header = "frame time" THEN replay[index + 1].time
    ELSE IF header = "seconds remaining" THEN get_seconds_remaining(processor).value
    ELSE LET player_id == (processor.team_zero \o processor.team_one)[header[2] + 1]
         IN IF header[4] = "boost level"
            THEN (IF get_player_boost_level(processor, player_id).err = "Ok"
                  THEN get_player_boost_level(processor, player_id).value ELSE 0)
            ELSE demolished_by(player_id, processor, index)

\* C18: every row lists the global adders' values in registration order and
\* then, for each player in roster order (team_zero, then team_one), the
\* per-player adders' values; headers_vec lists the column names in the same
\* order, so that each value of a row stands under its column's name.
C18_RowsFollowHeaders ==
    [][(pc = "collect" /\ handler'.state.frames_added = Collector.frames_added + 1) =>
          /\ Len(HeadersAfter) = RowWidth
          /\ \A j \in 1..RowWidth :
                 /\ HeadersAfter[j] = ExpectedHeader(j)
                 /\ ArrayAfter[Len(ArrayAfter)][j] = NamedValue(HeadersAfter[j])]_vars

\* A row of two global columns and two columns for each of two players, one
\* of whom the other demolished
C18_Witness ==
    /\ Collector.frames_added >= 1
    /\ Len(Collector.feature_adders) = 2
    /\ Len(Collector.player_feature_adders) = 2
    /\ Len(iter_player_ids_in_order(processor)) = 2
    /\ get_meta_and_ndarray(Collector).err = "Ok"
    /\ SubSeq(get_meta_and_ndarray(Collector).array[1], 3, 6) = <<0, 1, 0, -1>>

-----------------------------------------------------------------------------
(* Properties of the ReplayDataCollector under SpecReplayData *)

\* The collector's frame_data, now and after the call of this step
FrameData == handler.state.frame_data
FrameDataAfter == handler'.state.frame_data

\* The players' series: (PlayerId, frames)
SeriesOf(frame_data) == Range(frame_data.players)

\* The three series are index-aligned: as many ball frames as metadata
\* frames, no player series longer, and the longest player series (every one
\* of them, in fact) as long as that
Aligned ==
    /\ Len(FrameData.ball_data) = Len(FrameData.metadata_frames)
    /\ \A s \in SeriesOf(FrameData) : Len(s[2]) <= Len(FrameData.metadata_frames)
    /\ SeriesOf(FrameData) # {} =>
           \E s \in SeriesOf(FrameData) : Len(s[2]) = Len(FrameData.metadata_frames)
    /\ \A s, t \in SeriesOf(FrameData) : s[1] = t[1] => s = t

\* The call of this step returned Ok
CallSucceeds == last_call'[1].inner = NextFrame

\* A successful call, which is invocation number Len(metadata_frames) + 1 of
\* those that recorded, sets entry Len(metadata_frames) + 1 of every series
\* to its own frame and leaves the entries before it alone; a player it
\* records first gets an Empty frame for each invocation before it.
RecordsItsEntry ==
    LET n == Len(FrameData.metadata_frames)
    IN /\ FrameDataAfter.metadata_frames =
              Append(FrameData.metadata_frames,
                     [time |-> current_time,
                      seconds_remaining |-> get_seconds_remaining(processor).value])
       /\ FrameDataAfter.ball_data =
              Append(FrameData.ball_data,
                     BallFrame_new_from_processor(processor, replay, current_time))
       /\ {s[1] : s \in SeriesOf(FrameDataAfter)} =
              {s[1] : s \in SeriesOf(FrameData)} \cup Range(iter_player_ids_in_order(processor))
       /\ \A s \in SeriesOf(FrameDataAfter) :
              /\ Len(s[2]) = n + 1
              /\ s[1] \in Range(iter_player_ids_in_order(processor)) =>
                     s[2][n + 1] \in {Empty,
                                      PlayerFrame_new_from_processor(
                                          processor, replay, s[1], current_time).value}
              /\ \A t \in SeriesOf(FrameData) : t[1] = s[1] => SubSeq(s[2], 1, n) = t[2]
              /\ (\A t \in SeriesOf(FrameData) : t[1] # s[1]) =>
                     SubSeq(s[2], 1, n) = [k \in 1..n |-> Empty]

BallKnown ==
    /\ processor.ball_actor_id # None
    /\ processor.ball_actor_id[1] \in DOMAIN processor.actor_state.actor_states

BallAttributes == processor.actor_state.actor_states[processor.ball_actor_id[1]].attributes

\* Ball syncing is disabled: the ball's bIgnoreSyncing flag is set
SyncingDisabled ==
    /\ BallKnown
    /\ IGNORE_SYNCING_KEY \in DOMAIN BallAttributes
    /\ BallAttributes[IGNORE_SYNCING_KEY][1].value

\* The ball's latest rigid-body reading is a sleeping one
BallSleeping ==
    /\ BallKnown
    /\ RIGID_BODY_STATE_KEY \in DOMAIN BallAttributes
    /\ BallAttributes[RIGID_BODY_STATE_KEY][1].value.sleeping

\* The ball frame the call of this step recorded
RecordedBallFrame == FrameDataAfter.ball_data[Len(FrameDataAfter.ball_data)]

\* C20 as stated: the recorded BallFrame is Empty exactly when ball syncing
\* is disabled, the ball actor is unknown, or the rigid body is sleeping; in
\* every other case it is Data carrying the rigid body interpolated to
\* current_time with tolerance 0.
C20_EmptyOnlyWithoutAwakeBall ==
    [][(pc = "collect" /\ CallSucceeds) =>
          IF SyncingDisabled \/ ~BallKnown \/ BallSleeping
          THEN RecordedBallFrame = Empty
          ELSE /\ RecordedBallFrame.tag = "Data"
               /\ RecordedBallFrame.rigid_body =
                      get_interpolated_ball_rigid_body(processor, replay, current_time,
                                                       0).value]_vars

\* The index and the time of the frame of the ball's latest reading
ReadingIndex == BallAttributes[RIGID_BODY_STATE_KEY][2]
ReadingTime == replay[ReadingIndex + 1].time

\* The frames that carry a reading of the ball on the side of the latest
\* reading on which current_time lies
ReadingsBeyond ==
    {i \in 0..(Len(replay) - 1) :
        /\ IF current_time > ReadingTime THEN i > ReadingIndex ELSE i < ReadingIndex
        /\ \E k \in 1..Len(replay[i + 1].updated_actors) :
               /\ replay[i + 1].updated_actors[k].actor_id = processor.ball_actor_id[1]
               /\ replay[i + 1].updated_actors[k].object_id = RIGID_BODY_STATE_KEY}

\* The nearest of them, and the body it carries
OtherReading ==
    CHOOSE i \in ReadingsBeyond : \A j \in ReadingsBeyond : Abs(i - ReadingIndex) <= Abs(j - ReadingIndex)

BodyOn(i) ==
    LET k == CHOOSE k \in 1..Len(replay[i + 1].updated_actors) :
                 /\ replay[i + 1].updated_actors[k].actor_id = processor.ball_actor_id[1]
                 /\ replay[i + 1].updated_actors[k].object_id = RIGID_BODY_STATE_KEY
                 /\ \A l \in 1..(k - 1) :
                        \/ replay[i + 1].updated_actors[l].actor_id # processor.ball_actor_id[1]
                        \/ replay[i + 1].updated_actors[l].object_id # RIGID_BODY_STATE_KEY
    IN replay[i + 1].updated_actors[k].attribute.value

\* A body for current_time can be had: the ball has a reading, taken at
\* current_time or with another reading beyond it, at or past current_time
BodyInReach ==
    /\ BallKnown
    /\ RIGID_BODY_STATE_KEY \in DOMAIN BallAttributes
    /\ \/ ReadingTime = current_time
       \/ /\ ReadingsBeyond # {}
          /\ IF current_time > ReadingTime
             THEN current_time <= replay[OtherReading + 1].time
             ELSE replay[OtherReading + 1].time <= current_time

\* The body at current_time: a reading taken at current_time, or the point
\* between the two readings around current_time, asleep if the earlier is
BodyAtCurrentTime ==
    IF ReadingTime = current_time THEN BallAttributes[RIGID_BODY_STATE_KEY][1].value
    ELSE IF replay[OtherReading + 1].time = current_time THEN BodyOn(OtherReading)
    ELSE LET early == IF current_time > ReadingTime THEN ReadingIndex ELSE OtherReading
             late == IF current_time > ReadingTime THEN OtherReading ELSE ReadingIndex
             from == IF early = ReadingIndex
                     THEN BallAttributes[RIGID_BODY_STATE_KEY][1].value ELSE BodyOn(early)
             to == IF late = ReadingIndex
                   THEN BallAttributes[RIGID_BODY_STATE_KEY][1].value ELSE BodyOn(late)
         IN [location |->
                 from.location
                 + ((to.location - from.location) * (current_time - replay[early + 1].time))
                   \div (replay[late + 1].time - replay[early + 1].time),
             sleeping |-> from.sleeping]

\* C20 as amended: the recorded BallFrame is Empty exactly when ball syncing
\* is disabled, or no rigid body can be had for current_time with tolerance 0
\* (the ball actor is unknown, it has no rigid-body reading, or its latest
\* reading is not of current_time and no other reading lies beyond
\* current_time to interpolate with), or the body so obtained is sleeping; in
\* every other case it is Data carrying the rigid body interpolated to
\* current_time.
C20_EmptyWithoutBodyAtCurrentTime ==
    [][(pc = "collect" /\ CallSucceeds) =>
          IF SyncingDisabled \/ ~BodyInReach
          THEN RecordedBallFrame = Empty
          ELSE IF BodyAtCurrentTime.sleeping THEN RecordedBallFrame = Empty
          ELSE /\ RecordedBallFrame.tag = "Data"
               /\ RecordedBallFrame.rigid_body = BodyAtCurrentTime]_vars

\* A ball frame between two readings, a ball frame of a reading, and an
\* Empty one
C20_Witness ==
    /\ \E i \in 1..Len(FrameData.ball_data) :
           /\ FrameData.ball_data[i].tag = "Data"
           /\ FrameData.ball_data[i].rigid_body.location % 24 = 12
    /\ \E i \in 1..Len(FrameData.ball_data) :
           /\ FrameData.ball_data[i].tag = "Data"
           /\ FrameData.ball_data[i].rigid_body.location % 24 = 0
    /\ \E i \in 1..Len(FrameData.ball_data) : FrameData.ball_data[i] = Empty

-----------------------------------------------------------------------------
(* A roster player whose state cannot be had, under SpecReplayData *)

\* default_rb_state_no_velocities: the zero body
default_rb_state_no_velocities == <<0>>

\* The closure of InterpolatedPlayerRigidBodyNoVelocities on the result rb of
\* get_interpolated_player_rigid_body: the body's properties, or the default
\* for an Err; a panic of the call is not caught
rigid_body_properties_or_default(rb) ==
    IF rb.err = "Panic" THEN [value |-> <<>>, err |-> "Panic"]
    ELSE IF rb.err = "Ok" THEN [value |-> <<rb.value.location>>, err |-> "Ok"]
    ELSE [value |-> default_rb_state_no_velocities, err |-> "Ok"]

\* InterpolatedPlayerRigidBodyNoVelocities::get_features
InterpolatedPlayerRigidBodyNoVelocities(p, frames, player_id, time, close_enough) ==
    rigid_body_properties_or_default(
        get_interpolated_player_rigid_body(p, frames, player_id, time, close_enough))

\* The player's car cannot be told: the player actor is not known, or no
\* car is linked to it
CarMissing(player_id) == get_car_actor_id(processor, player_id).err # "Ok"

\* The player's car has no rigid body
BodyMissing(player_id) ==
    /\ ~CarMissing(player_id)
    /\ get_actor_rigid_body(processor, get_car_actor_id(processor, player_id).value).err # "Ok"

\* The player's boost level cannot be read
BoostMissing(player_id) == get_player_boost_level(processor, player_id).err # "Ok"

\* The frame the call of this step recorded for the player, if it recorded one
RecordedPlayerFrames(player_id) ==
    {s[2][Len(s[2])] : s \in {t \in SeriesOf(FrameDataAfter) : t[1] = player_id}}

\* C21: when the state of a roster player cannot be obtained at a collector
\* invocation (player actor unknown, no car linked, car rigid body missing,
\* boost component missing), the invocation does not crash, the
\* ReplayDataCollector records PlayerFrame::Empty for the player, and the
\* NDArray per-player adders, the interpolated rigid-body adder included,
\* write their sentinel values.
C21_MissingPlayerStateIsTolerated ==
    [][pc = "collect" =>
          \A i \in 1..Len(iter_player_ids_in_order(processor)) :
              LET player_id == iter_player_ids_in_order(processor)[i]
              IN (CarMissing(player_id) \/ BodyMissing(player_id) \/ BoostMissing(player_id))
                 => /\ pc' # "panic"
                    /\ CallSucceeds => RecordedPlayerFrames(player_id) = {Empty}
                    /\ (CarMissing(player_id) \/ BodyMissing(player_id)) =>
                           InterpolatedPlayerRigidBodyNoVelocities(
                               processor, replay, player_id, current_time, 0)
                           = [value |-> default_rb_state_no_velocities, err |-> "Ok"]
                    /\ BoostMissing(player_id) =>
                           player_add_features("PlayerBoost", player_id, processor,
                                               replay[index + 1], index, current_time,
                                               <<>>)
                           = [data |-> <<0>>, err |-> "Ok"]]_vars

-----------------------------------------------------------------------------
(* Properties of get_interpolated_actor_rigid_body under SpecNDArray *)

\* The actors asked about (the ball and a car), the times of the queries (up
\* to one tick past the last frame time a replay can have) and the
\* tolerances
QueriedActors == {5, 7}
QueryTimes == 0..(2 * MaxFrames - 1)
Tolerances == {0, 1}

\* The actor has a rigid-body sample
HasSample(actor_id) ==
    /\ actor_id \in DOMAIN processor.actor_state.actor_states
    /\ RIGID_BODY_STATE_KEY \in DOMAIN processor.actor_state.actor_states[actor_id].attributes

\* Its current sample and the index of the frame of its last update
CurrentSample(actor_id) ==
    processor.actor_state.actor_states[actor_id].attributes[RIGID_BODY_STATE_KEY][1].value
SampleIndex(actor_id) ==
    processor.actor_state.actor_states[actor_id].attributes[RIGID_BODY_STATE_KEY][2]

\* Frame i carries a RigidBody update of the actor
CarriesSample(actor_id, i) ==
    \E k \in 1..Len(replay[i + 1].updated_actors) :
        /\ replay[i + 1].updated_actors[k].actor_id = actor_id
        /\ replay[i + 1].updated_actors[k].object_id = RIGID_BODY_STATE_KEY

\* The sample it carries (the first, if several)
SampleOn(actor_id, i) ==
    replay[i + 1].updated_actors[
        CHOOSE k \in 1..Len(replay[i + 1].updated_actors) :
            /\ replay[i + 1].updated_actors[k].actor_id = actor_id
            /\ replay[i + 1].updated_actors[k].object_id = RIGID_BODY_STATE_KEY
            /\ \A l \in 1..(k - 1) :
                   \/ replay[i + 1].updated_actors[l].actor_id # actor_id
                   \/ replay[i + 1].updated_actors[l].object_id # RIGID_BODY_STATE_KEY
    ].attribute.value

\* The other frames with a sample of the actor in the direction of t: later
\* than the frame of the current sample when t is after its time, earlier
\* otherwise
SamplesTowards(actor_id, t) ==
    {i \in 0..(Len(replay) - 1) :
        /\ CarriesSample(actor_id, i)
        /\ IF t > replay[SampleIndex(actor_id) + 1].time
           THEN i > SampleIndex(actor_id) ELSE i < SampleIndex(actor_id)}

NearestTowards(actor_id, t) ==
    CHOOSE i \in SamplesTowards(actor_id, t) :
        \A j \in SamplesTowards(actor_id, t) :
            Abs(i - SampleIndex(actor_id)) <= Abs(j - SampleIndex(actor_id))

\* The point at time t on the segment from body a at time t_a to body b at
\* time t_b, with the sleeping flag of a
PointBetween(a, t_a, b, t_b, t) ==
    [location |-> a.location + ((b.location - a.location) * (t - t_a)) \div (t_b - t_a),
     sleeping |-> a.sleeping]

\* What the query is to return given the current sample (at time t0) and
\* the nearest other sample towards t (at time tn)
ExpectedBetween(got, cur, t0, other, tn, t, eps) ==
    IF Abs(tn - t) <= eps THEN got = [value |-> other, err |-> "Ok"]
    ELSE IF tn < t0
    THEN IF tn <= t /\ t <= t0
         THEN got = [value |-> PointBetween(other, tn, cur, t0, t), err |-> "Ok"]
         ELSE got.err # "Ok"
    ELSE IF t0 <= t /\ t <= tn
         THEN got = [value |-> PointBetween(cur, t0, other, tn, t), err |-> "Ok"]
         ELSE got.err # "Ok"

ExpectedAnswer(got, actor_id, t, eps) ==
    IF Abs(t - replay[SampleIndex(actor_id) + 1].time) <= eps
    THEN got = [value |-> CurrentSample(actor_id), err |-> "Ok"]
    ELSE IF SamplesTowards(actor_id, t) = {} THEN got.err = "NoUpdateAfterFrame"
    ELSE ExpectedBetween(got, CurrentSample(actor_id),
                         replay[SampleIndex(actor_id) + 1].time,
                         SampleOn(actor_id, NearestTowards(actor_id, t)),
                         replay[NearestTowards(actor_id, t) + 1].time, t, eps)

\* C22: get_interpolated_actor_rigid_body(actor, t, eps) returns the actor's
\* current sample when t is within eps of the time t0 of the frame of its
\* last update; otherwise it looks only in the direction of t for the nearest
\* other frame with a RigidBody update of the actor, fails with
\* NoUpdateAfterFrame when there is none, returns that sample when it is
\* within eps of t, and else interpolates between the two samples in the
\* order of their times, failing when t is outside their interval.
C22_InterpolatesTowardsQuery ==
    \A actor_id \in QueriedActors : \A t \in QueryTimes : \A eps \in Tolerances :
        HasSample(actor_id) =>
            ExpectedAnswer(get_interpolated_actor_rigid_body(processor, replay, actor_id,
                                                             t, eps),
                           actor_id, t, eps)

\* The ball's samples are at times 0 and 4 (locations 24 and 72) and the
\* later one is current: the query at 1 gives the quarter point, at 3 with
\* tolerance 1 the current sample, at 1 with tolerance 1 the earlier sample,
\* and at 5 an error for want of a later sample
C22_Witness ==
    /\ HasSample(7)
    /\ CurrentSample(7).location = 72
    /\ get_interpolated_actor_rigid_body(processor, replay, 7, 1, 0)
           = [value |-> [location |-> 36, sleeping |-> FALSE], err |-> "Ok"]
    /\ get_interpolated_actor_rigid_body(processor, replay, 7, 3, 1).value.location = 72
    /\ get_interpolated_actor_rigid_body(processor, replay, 7, 1, 1).value.location = 24
    /\ get_interpolated_actor_rigid_body(processor, replay, 7, 5, 0).err = "NoUpdateAfterFrame"

-----------------------------------------------------------------------------
(* Properties of util::get_interpolated_rigid_body under SpecInterpolate *)

\* The location lies on the segment between the two locations
OnSegment(location, a, b) ==
    \/ a.location <= location /\ location <= b.location
    \/ b.location <= location /\ location <= a.location

\* C23: get_interpolated_rigid_body(a, t_a, b, t_b, t) fails with
\* InterpolationTimeOrderError unless t_a <= t <= t_b; for every
\* t_a <= t <= t_b, t_a = t = t_b included, it returns a body whose location
\* is the point a.location + ((t - t_a) / (t_b - t_a)) * (b.location -
\* a.location) of the segment between the two locations, with the sleeping
\* flag (and the velocities) of a.
C23_PointOnSegment ==
    pc = "interpolated" =>
        LET call == last_call[1]
        IN IF ~(call.start_time <= current_time /\ current_time <= call.end_time)
           THEN result.err = "InterpolationTimeOrderError"
           ELSE /\ result.err = "Ok"
                /\ result.value.sleeping = call.start_body.sleeping
                /\ OnSegment(result.value.location, call.start_body, call.end_body)
                /\ (result.value.location - call.start_body.location)
                       * (call.end_time - call.start_time)
                   = (current_time - call.start_time)
                       * (call.end_body.location - call.start_body.location)

-----------------------------------------------------------------------------
(* Properties of ReplayProcessor::new under SpecReplayData *)

\* process has been entered and has not read a frame yet: the processor is
\* as ReplayProcessor::new returned it
AtEntry == pc = "frame" /\ index = 0

\* C24: after ReplayProcessor::new returns, all state the discovery pass
\* accumulated has been reset (the actor maps, the relationship indices,
\* ball_actor_id, the demolish log and the dedup window are empty or unset)
\* and only the rosters team_zero and team_one are kept: the main pass starts
\* from the state of a freshly created processor.
C24_NewStartsFresh ==
    AtEntry =>
        processor = [ReplayProcessor_fresh EXCEPT !.team_zero = processor.team_zero,
                                                  !.team_one = processor.team_one]

-----------------------------------------------------------------------------
(* Properties of the rosters under SpecMatch *)

\* C25: two constructions of a ReplayProcessor over the same replay yield the
\* same team_zero and the same team_one, whatever order the hash maps iterate
\* in: each roster is the set of its players sorted by the debug string of
\* the PlayerId.
C25_RostersAreStable ==
    AtEntry =>
        /\ \A p1 \in ReplayProcessor_new(replay) : \A p2 \in ReplayProcessor_new(replay) :
               p1.team_zero = p2.team_zero /\ p1.team_one = p2.team_one
        /\ processor.team_zero = SortByDebug(Range(processor.team_zero))
        /\ processor.team_one = SortByDebug(Range(processor.team_one))

\* Three players on team 0, whose debug order (10, 100, 9) is not the order
\* of their numbers, and one on team 1
C25_Witness ==
    /\ AtEntry
    /\ processor.team_zero = <<10, 100, 9>>
    /\ processor.team_one = <<20>>

-----------------------------------------------------------------------------
(* Properties of PlayerAnyJump under SpecMatch *)

\* The active byte of the component the index links to the player's car can
\* be read: the player's actor, its car, the component and the byte are there
ActiveByteReadable(player_id, map) ==
    /\ player_id \in DOMAIN processor.player_to_actor_id
    /\ processor.player_to_actor_id[player_id] \in DOMAIN processor.player_to_car
    /\ processor.player_to_car[processor.player_to_actor_id[player_id]]
           \in DOMAIN processor[map]
    /\ processor[map][processor.player_to_car[processor.player_to_actor_id[player_id]]]
           \in DOMAIN processor.actor_state.actor_states
    /\ COMPONENT_ACTIVE_KEY \in
           DOMAIN processor.actor_state.actor_states[
                      processor[map][processor.player_to_car[
                          processor.player_to_actor_id[player_id]]]].attributes

\* The low bit of that byte, 0 for a byte that cannot be read
LowBit(player_id, map) ==
    IF ActiveByteReadable(player_id, map)
    THEN processor.actor_state.actor_states[
             processor[map][processor.player_to_car[
                 processor.player_to_actor_id[player_id]]]]
             .attributes[COMPONENT_ACTIVE_KEY][1].value % 2
    ELSE 0

\* C26: PlayerAnyJump is (low bit of the dodge active byte) * 1 + (low bit of
\* the jump active byte) * 2 + (low bit of the double-jump active byte) * 4,
\* with 0 for a component whose active byte cannot be read: an integer in
\* 0..7, 2 when only jump is active and 7 when all three are.
C26_AnyJumpBits ==
    \A i \in 1..Len(iter_player_ids_in_order(processor)) :
        LET player_id == iter_player_ids_in_order(processor)[i]
        IN /\ PlayerAnyJump(processor, player_id)
                  = LowBit(player_id, "car_to_dodge") * 1
                    + LowBit(player_id, "car_to_jump") * 2
                    + LowBit(player_id, "car_to_double_jump") * 4
           /\ PlayerAnyJump(processor, player_id) \in 0..7

\* Player 9's components report the bytes 2 (dodge), 3 (jump) and 255 (double
\* jump): the value is 6
C26_Witness ==
    /\ ActiveByteReadable(9, "car_to_dodge")
    /\ get_dodge_active(processor, 9).value = 2
    /\ get_jump_active(processor, 9).value = 3
    /\ get_double_jump_active(processor, 9).value = 255
    /\ PlayerAnyJump(processor, 9) = 6

-----------------------------------------------------------------------------
(* Properties of update_mappings and update_ball_id under SpecMatch *)

\* The ActorIds a frame deletes and does not create again
DeletedForGood(frame) ==
    Range(frame.deleted_actors) \ {na.actor_id : na \in Range(frame.new_actors)}

\* The ActorIds a map from ActorId to ActorId holds as key or as value
LinkedActorIds(map) == DOMAIN map \cup {map[k] : k \in DOMAIN map}

\* The ActorIds the relationship indexes of p hold (the keys of
\* player_to_actor_id are PlayerIds)
IndexedActorIds(p) ==
    {p.player_to_actor_id[k] : k \in DOMAIN p.player_to_actor_id}
    \cup LinkedActorIds(p.player_to_team)
    \cup LinkedActorIds(p.player_to_car)
    \cup LinkedActorIds(p.car_to_boost)
    \cup LinkedActorIds(p.car_to_jump)
    \cup LinkedActorIds(p.car_to_double_jump)
    \cup LinkedActorIds(p.car_to_dodge)

\* C27: after every frame that process applied, no relationship index holds,
\* as key or as value, an ActorId that the frame deleted without re-creating
\* it; in particular no player_to_car entry has a deleted car as its value.
C27_DeletedActorsLeaveTheIndexes ==
    [][(pc = "frame" /\ index < Len(replay) /\ pc' # "error") =>
          DeletedForGood(replay[index + 1]) \cap IndexedActorIds(processor') = {}]_vars

-----------------------------------------------------------------------------
(* Properties of ActorStateModeler under SpecLife *)

\* The latest operation was op
Did(op) == last_call # None /\ last_call[1].op = op

\* The ActorIds a frame lists both in deleted_actors and in new_actors
Recreated(frame) ==
    Range(frame.deleted_actors) \cap {na.actor_id : na \in Range(frame.new_actors)}

\* The frame's NewActor for the actor
NewActorOf(frame, actor_id) ==
    CHOOSE na \in Range(frame.new_actors) : na.actor_id = actor_id

\* Nothing else in the frame can fail on modeler m: the deleted actors are
\* live and listed once, an actor that is created and not deleted is new to m
\* or of the same object, and the updated actors are live once the frame's
\* deletions and creations are done
RestApplies(m, frame) ==
    /\ \A i \in 1..Len(frame.deleted_actors) :
           /\ frame.deleted_actors[i] \in DOMAIN m.actor_states
           /\ \A j \in 1..Len(frame.deleted_actors) :
                  frame.deleted_actors[i] = frame.deleted_actors[j] => i = j
    /\ \A na \in Range(frame.new_actors) :
           na.actor_id \in DOMAIN m.actor_states \ Range(frame.deleted_actors)
               => m.actor_states[na.actor_id].object_id = na.object_id
    /\ \A i, j \in 1..Len(frame.new_actors) :
           frame.new_actors[i].actor_id = frame.new_actors[j].actor_id
               => frame.new_actors[i].object_id = frame.new_actors[j].object_id
    /\ \A up \in Range(frame.updated_actors) :
           up.actor_id \in (DOMAIN m.actor_states \ Range(frame.deleted_actors))
                           \cup {na.actor_id : na \in Range(frame.new_actors)}

\* The attributes the updates of a frame at frame_index give an actor: for
\* each key the last update of the key
AttributesSetBy(frame, actor_id, frame_index) ==
    LET own == {i \in 1..Len(frame.updated_actors) :
                    frame.updated_actors[i].actor_id = actor_id}
        last(key) == CHOOSE i \in own :
                         /\ frame.updated_actors[i].object_id = key
                         /\ \A j \in own : frame.updated_actors[j].object_id = key
                                               => j <= i
    IN [key \in {frame.updated_actors[i].object_id : i \in own} |->
            <<frame.updated_actors[last(key)].attribute, frame_index>>]

\* C28: a frame that lists the ActorId of a live actor in deleted_actors and
\* in new_actors (and in which nothing else fails) is applied as
\* delete-then-create-then-update: it succeeds, also when the new object_id
\* differs from the old one; the actor is of the new object, its derived
\* attributes are empty and its attributes are the ones the frame's updates
\* set, none if it sets none.
C28_RecreatedInOneFrame ==
    Did("process_frame") =>
        \A actor_id \in Recreated(last_call[1].input) :
            RestApplies(before.actor_state, last_call[1].input) =>
                /\ result = "Ok"
                /\ actor_id \in DOMAIN processor.actor_state.actor_states
                /\ processor.actor_state.actor_states[actor_id]
                       = [ActorState_new(NewActorOf(last_call[1].input, actor_id))
                          EXCEPT !.attributes =
                              AttributesSetBy(last_call[1].input, actor_id, index - 1)]

\* Actor 1, a car with an attribute, is deleted and created again as a boost
\* component by a frame that updates actor 2
C28_Witness ==
    /\ Did("process_frame")
    /\ Recreated(last_call[1].input) = {1}
    /\ RestApplies(before.actor_state, last_call[1].input)
    /\ before.actor_state.actor_states[1].object_id = CAR_TYPE
    /\ before.actor_state.actor_states[1].attributes # EmptyMap
    /\ Range(last_call[1].input.updated_actors) = {up \in ModelerUpdates : up.actor_id = 2}
    /\ processor.actor_state.actor_states[1].object_id = BOOST_TYPE
    /\ processor.actor_state.actor_states[1].attributes = EmptyMap

\* C29: a NewActor for an ActorId the modeler knows leaves the modeler as it
\* was (attributes, derived attributes, name_id and actor_ids_by_type
\* included), with Ok when its object_id is the actor's and with
\* ActorIdAlreadyExists when it is not; and no operation changes the
\* object_id of an actor that it does not delete.
C29_KnownActorIsLeftAlone ==
    /\ (Did("new_actor")
        /\ last_call[1].input.actor_id \in DOMAIN before.actor_state.actor_states)
       => /\ processor.actor_state = before.actor_state
          /\ result = IF before.actor_state.actor_states[last_call[1].input.actor_id]
                           .object_id = last_call[1].input.object_id
                      THEN "Ok" ELSE "ActorIdAlreadyExists"
    /\ \A actor_id \in DOMAIN before.actor_state.actor_states
                       \cap DOMAIN processor.actor_state.actor_states :
           (Did("process_frame")
            => actor_id \notin Range(last_call[1].input.deleted_actors))
           => processor.actor_state.actor_states[actor_id].object_id
                  = before.actor_state.actor_states[actor_id].object_id

\* A NewActor of the same object and another name_id arrives for actor 1,
\* which has an attribute
C29_Witness ==
    /\ Did("new_actor")
    /\ last_call[1].input.actor_id = 1
    /\ 1 \in DOMAIN before.actor_state.actor_states
    /\ before.actor_state.actor_states[1].object_id = last_call[1].input.object_id
    /\ before.actor_state.actor_states[1].name_id # last_call[1].input.name_id
    /\ before.actor_state.actor_states[1].attributes # EmptyMap
    /\ result = "Ok"

\* The live actors whose object is one of the ball archetypes
LiveBalls(p) ==
    {actor_id \in DOMAIN p.actor_state.actor_states :
         p.actor_state.actor_states[actor_id].object_id \in Range(BALL_TYPES)}

\* C30: after every frame that process applied, if at least one live actor
\* is of a ball archetype then ball_actor_id is set, and set to such an
\* actor; a frame that deletes the ball's ActorId and creates a ball under
\* the same ActorId is no exception.
C30_LiveBallIsKnown ==
    [][(pc = "frame" /\ index < Len(replay) /\ pc' # "error") =>
          (LiveBalls(processor') # {} =>
               /\ processor'.ball_actor_id # None
               /\ processor'.ball_actor_id[1] \in LiveBalls(processor'))]_vars

-----------------------------------------------------------------------------
(* Properties of the deduplication window under SpecDemolish *)

\* The entries of known_demolishes recorded at most
\* MAX_DEMOLISH_KNOWN_FRAMES_PASSED frames before frame_index
RecentlyKnown(p, frame_index) ==
    {i \in 1..Len(p.known_demolishes) :
         frame_index - p.known_demolishes[i][2] <= MAX_DEMOLISH_KNOWN_FRAMES_PASSED}

\* C31: after every frame that process applied, known_demolishes holds only
\* entries recorded at most 100 frames before that frame (its size is then
\* bounded by the demolitions of the last 100 frames, however long the
\* replay is).
C31_WindowIsPruned ==
    [][(pc = "frame" /\ index < Len(replay) /\ pc' # "error") =>
          RecentlyKnown(processor', index) = 1..Len(processor'.known_demolishes)]_vars

-----------------------------------------------------------------------------
(* Properties of ball_actor_id in the main pass, under SpecMatch *)

\* C32: after every frame that process applied in the main pass, if
\* ball_actor_id is Some(id) then id is a key of actor_states and the actor is
\* of one of the ball archetypes.
C32_BallIdNamesLiveBall ==
    [][(pc = "frame" /\ index < Len(replay) /\ pc' # "error") =>
          (processor'.ball_actor_id # None =>
               processor'.ball_actor_id[1] \in LiveBalls(processor'))]_vars

-----------------------------------------------------------------------------
(* Properties of the reverse lookups under SpecMatch *)

\* No two keys of the map have the same value
OneKeyPerValue(map) ==
    \A j, k \in DOMAIN map : map[j] = map[k] => j = k

\* C33: after every frame that process applied, ActorIds recycled or not, no
\* two player actors have the same car in player_to_car and no two PlayerIds
\* the same player actor in player_to_actor_id, so that
\* get_player_id_from_car_id has at most one answer for a car.
C33_ReverseLookupsAreUnambiguous ==
    [][(pc = "frame" /\ index < Len(replay) /\ pc' # "error") =>
          /\ OneKeyPerValue(processor'.player_to_car)
          /\ OneKeyPerValue(processor'.player_to_actor_id)
          /\ \A car \in {processor'.player_to_car[k] : k \in DOMAIN processor'.player_to_car} :
                 Cardinality(get_player_id_from_car_id(processor', car)) = 1]_vars

-----------------------------------------------------------------------------
(* Properties of find_update_in_direction under SpecNDArray *)

\* The scan of get_interpolated_actor_rigid_body for the query (actor_id, t):
\* what find_update_in_direction returns from the frame of the current sample
NeighbourFound(actor_id, t) ==
    find_update_in_direction(replay, SampleIndex(actor_id), actor_id,
                             RIGID_BODY_STATE_KEY,
                             search_direction(t - replay[SampleIndex(actor_id) + 1].time))

\* The updates of the actor on frames i and j go to one actor: no frame after
\* the earlier one, up to the later one, deletes the ActorId
SameLifetime(actor_id, i, j) ==
    \A k \in 0..(Len(replay) - 1) :
        ((i < k /\ k <= j) \/ (j < k /\ k <= i))
            => actor_id \notin Range(replay[k + 1].deleted_actors)

\* C34: the neighbouring sample that get_interpolated_actor_rigid_body finds
\* by scanning the frames belongs to the same actor lifetime as the current
\* sample: no deletion of the ActorId lies between the two frames.
C34_NeighbourOfSameLifetime ==
    \A actor_id \in QueriedActors : \A t \in QueryTimes : \A eps \in Tolerances :
        (/\ HasSample(actor_id)
         /\ Abs(t - replay[SampleIndex(actor_id) + 1].time) > eps
         /\ NeighbourFound(actor_id, t).err = "Ok")
        => SameLifetime(actor_id, SampleIndex(actor_id), NeighbourFound(actor_id, t).index)

-----------------------------------------------------------------------------
(* Properties of a lasting DemolishFx value under SpecDemolish *)

\* The frame since which the car has carried its ReplicatedDemolishGoalExplosion
\* value: the frame of the attribute's update
CarriedSince(car) ==
    processor.actor_state.actor_states[car].attributes[DEMOLISH_GOAL_EXPLOSION_KEY][2]

\* By frame i both cars of the value were tied to players and the game
\* actor had its SecondsRemaining
ResolvableBy(i) ==
    /\ \A car \in {5, 6} :
           \E j \in 0..i : car \in UpdatedWith(replay[j + 1], PLAYER_REPLICATION_KEY)
    /\ \E j \in 0..i : 8 \in UpdatedWith(replay[j + 1], SECONDS_REMAINING_KEY)

\* The frames of the log entries of the value from frame i on
LoggedFrom(i) ==
    {processor.demolishes[k].frame :
        k \in {k \in 1..Len(processor.demolishes) :
                  /\ processor.demolishes[k].attacker = 9
                  /\ processor.demolishes[k].victim = 10
                  /\ processor.demolishes[k].frame >= i}}

\* The value was not in the dedup window when it appeared on frame i: no
\* sighting of it was recorded in the MAX_DEMOLISH_KNOWN_FRAMES_PASSED frames
\* before
FirstSeenOn(i) ==
    \A k \in 1..Len(processor.known_demolishes) :
        (processor.known_demolishes[k][1] = TheDemolish
         /\ processor.known_demolishes[k][2] < i)
            => i - processor.known_demolishes[k][2] >= MAX_DEMOLISH_KNOWN_FRAMES_PASSED

\* C35: a resolvable DemolishFx value that has stayed set on a live car since
\* the frame on which it first appeared, for any number of frames, has one
\* entry in the demolish log for that time, stamped with that frame.
C35_OneEntryWhileItStays ==
    \A car \in SightedOn :
        (ResolvableBy(CarriedSince(car)) /\ FirstSeenOn(CarriedSince(car)))
            => LoggedFrom(CarriedSince(car)) = {CarriedSince(car)}

-----------------------------------------------------------------------------
(* Properties of an unresolved DemolishFx value under SpecDemolish *)

\* The frames on which the value was entered in the dedup window without a
\* log entry
UnresolvedSightings ==
    {processor.known_demolishes[k][2] :
        k \in {k \in 1..Len(processor.known_demolishes) :
                  /\ processor.known_demolishes[k][1] = TheDemolish
                  /\ processor.known_demolishes[k][2] \notin LoggedFrom(0)}}

\* C36: a DemolishFx value that is new on a frame and cannot be resolved
\* there (a car of it is tied to no player, or SecondsRemaining is not
\* available) does not stop process and adds no log entry, but is entered in
\* the dedup window with that frame; and the log has no entry of the value
\* for any of the 99 frames after such a sighting, resolvable by then or not.
C36_UnresolvedEntersWindowOnly ==
    /\ (Applied > 0 /\ SightedOn # {} /\ ~InDedupWindow /\ ~Resolvable) =>
           /\ pc # "error"
           /\ processor.demolishes = before.demolishes
           /\ LastIndex \in UnresolvedSightings
    /\ \A i \in UnresolvedSightings :
           LoggedFrom(i + 1) \cap (i + 1)..(i + MAX_DEMOLISH_KNOWN_FRAMES_PASSED - 1) = {}

\* Car 6 appeared with the value on frame 100, tied to no player, and was
\* tied to player 10 on frame 101; frame 199 is applied, the value is
\* resolvable and still on the car, and the log is empty
C36_Witness ==
    /\ Applied = 2 * MAX_DEMOLISH_KNOWN_FRAMES_PASSED
    /\ UnresolvedSightings = {MAX_DEMOLISH_KNOWN_FRAMES_PASSED}
    /\ SightedOn = {6}
    /\ Resolvable
    /\ processor.demolishes = <<>>

-----------------------------------------------------------------------------
(* C37: termination of process *)

\* The latest invocation, if there was one, returned NextFrame, an error, or
\* a Time later than the current_time it was invoked with.  Times are whole
\* ticks, so later means later by at least one tick, the fixed step.
Advancing ==
    \/ last_call = None
    \/ LastAnswer.tag \in {"NextFrame", "Err"}
    \/ LastAnswer.t > last_call[1].current_time

\* process has returned, Ok or with the first error
Returned == pc \in {"done", "error"}

\* The while loop is about to invoke the collector once more on the frame of
\* the latest invocation.
InvokedAgain ==
    /\ last_call # None
    /\ pc = "collect"
    /\ index = last_call[1].index

\* C37: process returns, Ok after the last frame or with the first error,
\* whenever every invocation of the collector returns NextFrame, an error or
\* a Time later than its current_time; and the invocations on one frame are
\* finitely many: each is made at a current_time no later than the frame's
\* time, and after an answer of that kind the next one on the same frame is
\* made at a strictly later current_time.
C37_AdvancingCollectorTerminates ==
    /\ []Advancing => <>Returned
    /\ [](pc = "collect" => current_time <= CurrentFrame.time)
    /\ []((InvokedAgain /\ Advancing) => current_time > last_call[1].current_time)

\* process returned Ok with a FrameRateDecorator of a positive duration
\* around a collector that returns NextFrame, every answer being a Time one
\* duration later, after more invocations than the replay has frames
C37_Witness ==
    /\ pc = "done"
    /\ Decorated
    /\ handler.target_frame_duration > 0
    /\ handler.collector = "NextFrame"
    /\ Advancing
    /\ ncalls > Len(replay)

-----------------------------------------------------------------------------
(* C38: a failing frame is applied up to its first failing operation *)

\* The operations of a frame in the order deletions, creations, updates
FrameOperations(frame) ==
    [i \in 1..Len(frame.deleted_actors) |->
        [kind |-> "delete", actor_id |-> frame.deleted_actors[i]]]
    \o [i \in 1..Len(frame.new_actors) |->
        [kind |-> "new", new_actor |-> frame.new_actors[i]]]
    \o [i \in 1..Len(frame.updated_actors) |->
        [kind |-> "update", update |-> frame.updated_actors[i]]]

\* One operation of a frame on modeler m
OperationOn(m, operation, frame_index) ==
    IF operation.kind = "delete" THEN delete_actor(m, operation.actor_id)
    ELSE IF operation.kind = "new" THEN new_actor(m, operation.new_actor)
    ELSE update_attribute(m, operation.update, frame_index)

\* The modeler after the first n of the operations, each applied to what the
\* one before it left
RECURSIVE AfterOperations(_, _, _, _)
AfterOperations(m, operations, n, frame_index) ==
    IF n = 0 THEN m
    ELSE OperationOn(AfterOperations(m, operations, n - 1, frame_index),
                     operations[n], frame_index).m

\* Operation n fails on what the operations before it left, and it is the
\* first that does
FirstFailure(m, operations, n, frame_index) ==
    /\ \A k \in 1..n :
         (OperationOn(AfterOperations(m, operations, k - 1, frame_index),
                      operations[k], frame_index).err # "Ok") <=> (k = n)

\* The frame process_frame was last called with, its operations, and the
\* modeler it was called on
LastFrame == last_call[1].input
LastOperations == FrameOperations(LastFrame)
ModelerBefore == before.actor_state

\* C38: process_frame applies the deletions, then the creations, then the
\* updates of the frame one by one.  When none fails it returns Ok and all
\* are applied; otherwise it returns the error of the first operation that
\* fails and leaves the modeler with exactly the operations before that one
\* applied, those of the same frame included.
C38_FrameAppliedUpToFirstFailure ==
    Did("process_frame") =>
        \/ /\ result = "Ok"
           /\ \A n \in 1..Len(LastOperations) :
                ~FirstFailure(ModelerBefore, LastOperations, n, index - 1)
           /\ processor.actor_state =
                AfterOperations(ModelerBefore, LastOperations, Len(LastOperations),
                                index - 1)
        \/ \E n \in 1..Len(LastOperations) :
             /\ FirstFailure(ModelerBefore, LastOperations, n, index - 1)
             /\ result = OperationOn(AfterOperations(ModelerBefore, LastOperations,
                                                     n - 1, index - 1),
                                     LastOperations[n], index - 1).err
             /\ processor.actor_state =
                  AfterOperations(ModelerBefore, LastOperations, n - 1, index - 1)

\* A frame deleted actor 1, which was live, and then failed on the deletion
\* of actor 2: the error is returned and actor 1 is gone
C38_Witness ==
    /\ Did("process_frame")
    /\ LastFrame.deleted_actors = <<1, 2>>
    /\ 1 \in DOMAIN ModelerBefore.actor_states
    /\ 2 \notin DOMAIN ModelerBefore.actor_states
    /\ result # "Ok"
    /\ 1 \notin DOMAIN processor.actor_state.actor_states

-----------------------------------------------------------------------------
(* C39: the rosters and the players of the discovery pass *)

\* The processors the discovery pass of ReplayProcessor::new leaves for the
\* replay when it stops, before the rosters are set and the state is reset
WhenPrePassStopped ==
    {d.p : d \in {r \in DiscoveryFrames(ReplayProcessor_fresh, replay, 1) : r.err = "Ok"}}

\* No PlayerId occurs twice in the roster
DuplicateFree(roster) ==
    \A i \in 1..Len(roster) : \A j \in 1..Len(roster) : roster[i] = roster[j] => i = j

\* C39: on a constructed processor team_zero and team_one are disjoint and
\* duplicate-free, and every PlayerId that was a key of player_to_actor_id
\* when the discovery pass stopped is in one of them.
C39_RostersPartitionObservedPlayers ==
    /\ Range(processor.team_zero) \cap Range(processor.team_one) = {}
    /\ DuplicateFree(processor.team_zero)
    /\ DuplicateFree(processor.team_one)
    /\ \A p \in WhenPrePassStopped :
         DOMAIN p.player_to_actor_id
             \subseteq Range(processor.team_zero) \cup Range(processor.team_one)

-----------------------------------------------------------------------------
(* C40: the metadata capture of the NDArrayCollector's first invocation *)

\* C40: on a processor ReplayProcessor::new returned, the first invocation of
\* the NDArrayCollector captures the replay metadata: maybe_set_replay_meta
\* succeeds on it and replay_meta is set afterwards, whether or not every
\* roster player has appeared by then.
C40_FirstInvocationCapturesMeta ==
    [][(pc = "collect" /\ ncalls = 0) =>
          /\ maybe_set_replay_meta(Collector, processor).err = "Ok"
          /\ handler'.state.replay_meta # None]_vars

====
